---- MODULE Spec2Model ----
(***************************************************************************)
(* Model of the Enhanced RA.Aid server: the per-connection orchestration   *)
(* engine (EnhancedRAServer.process_message / process_next_task), the      *)
(* ConnectionState task queue and the MemorySaver task store.              *)
(*                                                                         *)
(* One websocket connection of client ClientId is modelled.  A coroutine   *)
(* of process_next_task suspended in a phase collaborator (the agents      *)
(* await asyncio.sleep) is an element of `pipelines`; everything a handler *)
(* or a pipeline does between two such suspensions is one atomic step.     *)
(*                                                                         *)
(* The specifications:                                                     *)
(*   Spec          process_message is called on the ConnectionState at any *)
(*                 time, also while a pipeline of that state is suspended  *)
(*                 (the way tests/test_enhanced_server.py drives it);      *)
(*   SpecEndpoint  the websocket endpoint: the receive loop awaits         *)
(*                 process_message, pipeline included, before it reads the *)
(*                 next message;                                           *)
(*   SpecQueue     the ConnectionState queue methods on their own;         *)
(*   SpecFair      Spec, with every suspended agent call ending;           *)
(*   SpecCancel    tasks submitted and cancelled by direct calls, the      *)
(*                 agent ending only between the calls of the test;        *)
(*   SpecSessions  two connections, ClientId and PeerId, on one server     *)
(*                 (SpecSessionsFair: every agent call ends);              *)
(*   SpecStore     MemorySaver's key/value and phase-result methods;       *)
(*   SpecTasks     MemorySaver's task-history methods;                     *)
(*   SpecStatus    tasks submitted and get_task_status asked by direct     *)
(*                 calls;                                                  *)
(*   SpecClose     the socket of ClientId closing or disconnecting while   *)
(*                 messages are handled;                                   *)
(*   SpecState     add_task, start, mark_task_complete and cancel_task of  *)
(*                 ConnectionState;                                        *)
(*   SpecLogs      log_task_message and get_task_logs;                     *)
(*   SpecHistory   store_task, mark_task_complete and get_task_history;    *)
(*   SpecClear     clear_thread and clear_all over the four tables;        *)
(*   SpecDirect    process_next_task called directly between the calls of  *)
(*                 Spec;                                                   *)
(*   SpecRegistry  websockets connecting and disconnecting, two of them    *)
(*                 under one client_id included, and send_update;          *)
(*   SpecWorkers   store_task, mark_task_complete and clear_thread called  *)
(*                 from two threads, statement by statement.               *)
(***************************************************************************)
EXTENDS Integers, Sequences, FiniteSets, TLC

\* ------------------------------------------------------------------ bounds
MaxCalls == 3       \* process_message calls per run (Spec)
MaxMsgs == 3        \* messages the client sends per run (SpecEndpoint)
MaxInbox == 2       \* messages waiting in the socket (SpecEndpoint)
MaxOps == 5         \* queue method calls per run (SpecQueue)

\* --------------------------------------------------------------- constants
None == "None"      \* Python None, for string-valued fields
NULL == 0           \* SQL NULL of the INTEGER column completed_at
ClientId == "X"     \* the client_id of the connection, also its thread_id
TaskIds == {"A", "B"}                 \* caller-supplied task ids
GenIds == <<"g1", "g2", "g3", "g4", "g5", "g6", "g7", "g8">>  \* uuid4 values
Phases == <<"research", "planning", "implementation">>
Models == {"m1", "m2"}
ConfigModel == "m1"                   \* config["model"]

NoTask == [task_id |-> None, content |-> None, created_at |-> 0]
NoMeta == [kind |-> "null", phase |-> None, model |-> None]
NoFrame == [task |-> NoTask, phase |-> None]
NoConfig == [keys |-> {}, model |-> None, research_only |-> FALSE]
NoMessage ==
    [type |-> "none", content |-> None, task_id |-> None, config |-> NoConfig]

\* The session of the second client before it connects; research_only is
\* filled in from the server configuration.
PeerId == "Y"
NoPeer ==
    [connected |-> FALSE, model |-> ConfigModel, research_only |-> FALSE,
     current_phase |-> None, current_task_id |-> None, task_queue |-> <<>>,
     completed_tasks |-> <<>>, is_processing |-> FALSE, sent |-> <<>>,
     inbox |-> <<>>, pipelines |-> {}, started |-> <<>>]

\* The websocket of ClientId once accepted: the transport is open, the
\* receive loop of websocket_endpoint is running, no send_json has raised.
OpenSocket == [open |-> TRUE, receiving |-> TRUE, errors |-> 0]

\* No MemorySaver method called yet (SpecStore).  A call is recorded with
\* its arguments and, for a read, the value it returned; prev names the
\* call before it.
NoPrev == [op |-> "none", task_id |-> None, thread_id |-> None]

NoRead ==
    [op |-> "none", key |-> None, value |-> None, task_id |-> None,
     phase |-> None, thread_id |-> None, status |-> None,
     metadata |-> NoMeta, default |-> None, result |-> None, n |-> 0,
     prev |-> NoPrev, limit |-> 0, offset |-> 0, message_type |-> None]

\* A websocket just accepted by websocket_endpoint for client_id, the h-th
\* of the run: the transport is open, the receive loop is running, and the
\* connection_established frame has been sent on it.  A frame carries the
\* number of the connection whose endpoint, handler or pipeline sent it.
Accepted(client_id, h) ==
    [client_id |-> client_id, open |-> TRUE, receiving |-> TRUE,
     errors |-> 0,
     frames |-> <<[type |-> "connection_established", origin |-> h]>>]

\* WebSocketManager.__init__: both maps empty; 0 is the absent entry.
NoConnections ==
    [active_connections |-> [c \in {ClientId, PeerId} |-> 0],
     connection_states |-> [c \in {ClientId, PeerId} |-> 0]]

\* WebSocketManager.add_connection: both maps are assigned under client_id.
add_connection(mgr, client_id, h) ==
    [mgr EXCEPT !.active_connections[client_id] = h,
                !.connection_states[client_id] = h]

\* WebSocketManager.remove_connection on the two maps: pop(client_id, None).
pop_connection(mgr, client_id) ==
    [mgr EXCEPT !.active_connections[client_id] = 0,
                !.connection_states[client_id] = 0]

\* The threads of the server process that call the MemorySaver, and a
\* thread that is in no MemorySaver method: pc is the place in the method,
\* found the result of the SELECT of store_task.
Workers == {"T1", "T2"}
NoStoreCall ==
    [pc |-> "idle", op |-> "none", task_id |-> None, status |-> None,
     found |-> FALSE]

\* The name of a recorded call.
CallOf(c) == [op |-> c.op, task_id |-> c.task_id, thread_id |-> c.thread_id]

VARIABLES
    \* ConnectionState
    model, research_only, current_phase, current_task_id, task_queue,
    completed_tasks, is_processing,
    \* WebSocketManager: the client ids in each of its two maps
    active_connections, connection_states,
    \* the websocket of ClientId
    websocket,
    \* MemorySaver tables and its clock
    task_history, task_logs, phase_results, now,
    \* transport: messages sent to the client, messages waiting to be read
    sent, inbox,
    \* suspended process_next_task coroutines
    pipelines,
    \* uuid source, number of inbound messages so far
    uuid_seq, nmsgs,
    \* history: created_at of the tasks started, in start order; the
    \* coroutine whose agent raised in the step just taken
    started, raised,
    \* SpecQueue history: tasks added, results of pop_next_task, last call
    added, popped, last_call,
    \* history: the message whose handler ran in the step just taken; the
    \* number of collaborator calls that have ended
    handled, nsteps,
    \* history: the store writes and the frames sent by the step just taken,
    \* in the order the code made them
    trace,
    \* the session of a second client (SpecSessions)
    peer,
    \* MemorySaver table memory; the last MemorySaver call and its result
    memory, store_call,
    \* every websocket accepted so far, in order of acceptance, and the two
    \* maps of WebSocketManager from client_id to such a websocket (SpecRegistry)
    connections, manager,
    \* MemorySaver._lock: the thread holding it; the store call each thread
    \* is in (SpecWorkers)
    lock, workers

vars == <<model, research_only, current_phase, current_task_id, task_queue,
          completed_tasks, is_processing, active_connections,
          connection_states, websocket, task_history,
          task_logs, phase_results, now, sent, inbox, pipelines, uuid_seq,
          nmsgs, started, raised, added, popped, last_call, handled, nsteps,
          trace, peer, memory, store_call, connections, manager, lock,
          workers>>

\* The whole state as one record, so that the code's functions compose.
World ==
    [model |-> model, research_only |-> research_only,
     current_phase |-> current_phase, current_task_id |-> current_task_id,
     task_queue |-> task_queue, completed_tasks |-> completed_tasks,
     is_processing |-> is_processing,
     active_connections |-> active_connections,
     connection_states |-> connection_states, websocket |-> websocket,
     task_history |-> task_history, task_logs |-> task_logs,
     phase_results |-> phase_results, now |-> now,
     sent |-> sent, inbox |-> inbox, pipelines |-> pipelines,
     uuid_seq |-> uuid_seq, nmsgs |-> nmsgs, started |-> started,
     raised |-> NoFrame, handled |-> NoMessage, nsteps |-> nsteps,
     trace |-> <<>>,
     peer |-> peer, memory |-> memory, store_call |-> store_call]

Commit(w) ==
    /\ model' = w.model
    /\ research_only' = w.research_only
    /\ current_phase' = w.current_phase
    /\ current_task_id' = w.current_task_id
    /\ task_queue' = w.task_queue
    /\ completed_tasks' = w.completed_tasks
    /\ is_processing' = w.is_processing
    /\ active_connections' = w.active_connections
    /\ connection_states' = w.connection_states
    /\ websocket' = w.websocket
    /\ task_history' = w.task_history
    /\ task_logs' = w.task_logs
    /\ phase_results' = w.phase_results
    /\ now' = w.now
    /\ sent' = w.sent
    /\ inbox' = w.inbox
    /\ pipelines' = w.pipelines
    /\ uuid_seq' = w.uuid_seq
    /\ nmsgs' = w.nmsgs
    /\ started' = w.started
    /\ raised' = w.raised
    /\ handled' = w.handled
    /\ trace' = w.trace
    /\ nsteps' = w.nsteps
    /\ memory' = w.memory
    /\ peer' = w.peer
    /\ store_call' = w.store_call
    /\ UNCHANGED <<connections, manager, lock, workers>>

\* ------------------------------------------------------------ MemorySaver
\* Rows of task_history that a WHERE thread_id = ? AND task_id = ? selects.
TaskRows(hist, thread_id, task_id) ==
    {i \in 1..Len(hist) :
        hist[i].thread_id = thread_id /\ hist[i].task_id = task_id}

\* Mutant of store_task: the row is looked up and updated by task_id alone.
store_task_any_thread(w, task_id, content, thread_id, status, metadata) ==
    IF \A i \in 1..Len(w.task_history) : w.task_history[i].task_id # task_id
    THEN [w EXCEPT !.task_history = Append(@,
            [thread_id |-> thread_id, task_id |-> task_id,
             content |-> content, status |-> status,
             created_at |-> w.now, completed_at |-> NULL,
             metadata |-> metadata])]
    ELSE [w EXCEPT !.task_history =
            [i \in 1..Len(@) |->
                IF @[i].task_id = task_id
                THEN [@[i] EXCEPT !.status = status, !.metadata = metadata]
                ELSE @[i]]]

\* Mutant of store_task: the update writes the content as well.
store_task_overwrite(w, task_id, content, thread_id, status, metadata) ==
    IF TaskRows(w.task_history, thread_id, task_id) = {}
    THEN [w EXCEPT !.task_history = Append(@,
            [thread_id |-> thread_id, task_id |-> task_id,
             content |-> content, status |-> status,
             created_at |-> w.now, completed_at |-> NULL,
             metadata |-> metadata])]
    ELSE [w EXCEPT !.task_history =
            [i \in 1..Len(@) |->
                IF i \in TaskRows(w.task_history, thread_id, task_id)
                THEN [@[i] EXCEPT !.status = status, !.metadata = metadata,
                                  !.content = content]
                ELSE @[i]]]

\* The record of one store write or one frame sent, appended to the trace of
\* the step: the method, the task, and the status, message_type or frame
\* type with the phase it names.
Did(w, op, task_id, what, phase) ==
    [w EXCEPT !.trace = Append(@,
        [op |-> op, task_id |-> task_id, what |-> what, phase |-> phase])]

\* MemorySaver.store_task: insert when no row exists, else update status and
\* metadata only.
store_task(w, task_id, content, thread_id, status, metadata) ==
    IF TaskRows(w.task_history, thread_id, task_id) = {}
    THEN [Did(w, "store_task", task_id, status, None) EXCEPT
          !.task_history = Append(@,
            [thread_id |-> thread_id, task_id |-> task_id,
             content |-> content, status |-> status,
             created_at |-> w.now, completed_at |-> NULL,
             metadata |-> metadata])]
    ELSE [Did(w, "store_task", task_id, status, None) EXCEPT
          !.task_history =
            [i \in 1..Len(@) |->
                IF i \in TaskRows(w.task_history, thread_id, task_id)
                THEN [@[i] EXCEPT !.status = status, !.metadata = metadata]
                ELSE @[i]]]

\* Mutant of MemorySaver.mark_task_complete: a completed_at already set is
\* kept.
memory_mark_task_complete_once(w, task_id, thread_id, metadata) ==
    [Did(w, "mark_task_complete", task_id, "completed", None) EXCEPT
      !.task_history =
        [i \in 1..Len(@) |->
            IF i \in TaskRows(w.task_history, thread_id, task_id)
            THEN [@[i] EXCEPT !.status = "completed",
                              !.completed_at = IF @ = NULL THEN w.now ELSE @,
                              !.metadata = IF metadata = NoMeta
                                           THEN @ ELSE metadata]
            ELSE @[i]]]

\* MemorySaver.mark_task_complete: UPDATE only; metadata is written when given.
memory_mark_task_complete(w, task_id, thread_id, metadata) ==
    [Did(w, "mark_task_complete", task_id, "completed", None) EXCEPT
      !.task_history =
        [i \in 1..Len(@) |->
            IF i \in TaskRows(w.task_history, thread_id, task_id)
            THEN [@[i] EXCEPT !.status = "completed",
                              !.completed_at = w.now,
                              !.metadata = IF metadata = NoMeta
                                           THEN @ ELSE metadata]
            ELSE @[i]]]

\* MemorySaver.get_task: the first matching row, or None.
NoRow ==
    [thread_id |-> None, task_id |-> None, content |-> None, status |-> None,
     created_at |-> NULL, completed_at |-> NULL, metadata |-> NoMeta]

get_task(hist, task_id, thread_id) ==
    IF TaskRows(hist, thread_id, task_id) = {} THEN NoRow
    ELSE hist[CHOOSE i \in TaskRows(hist, thread_id, task_id) :
                \A j \in TaskRows(hist, thread_id, task_id) : i <= j]

\* A log message: its fixed text, and the phase or queue position the text
\* names (None, 0 when it names none).
Text(text, phase, position) ==
    [text |-> text, phase |-> phase, position |-> position]

\* MemorySaver.log_task_message: a pure insert.
log_task_message(w, task_id, message, message_type, thread_id) ==
    [Did(w, "log_task_message", task_id, message_type, message.phase) EXCEPT
      !.task_logs = Append(@,
        [thread_id |-> thread_id, task_id |-> task_id,
         message |-> message, message_type |-> message_type,
         timestamp |-> w.now])]

\* seq from its (n + 1)-th entry on; OFFSET n, a negative n being 0.
Skip(seq, n) ==
    IF n <= 0 THEN seq
    ELSE IF n >= Len(seq) THEN <<>>
    ELSE SubSeq(seq, n + 1, Len(seq))

\* The first n entries of seq; LIMIT n, a negative n being no limit.
Take(seq, n) ==
    IF n < 0 \/ n >= Len(seq) THEN seq ELSE SubSeq(seq, 1, n)

\* ORDER BY id DESC on rows kept in insertion order.
Descending(seq) == [i \in 1..Len(seq) |-> seq[Len(seq) + 1 - i]]

\* MemorySaver.get_task_logs: SELECT ... WHERE thread_id = ? AND task_id = ?
\* [AND message_type = ?] ORDER BY id DESC LIMIT ? OFFSET ?.
get_task_logs(w, task_id, thread_id, limit, offset, message_type) ==
    LET rows == SelectSeq(w.task_logs, LAMBDA r :
                    /\ r.thread_id = thread_id
                    /\ r.task_id = task_id
                    /\ message_type # None => r.message_type = message_type)
        page == Take(Skip(Descending(rows), offset), limit)
    IN [i \in 1..Len(page) |->
           [message |-> page[i].message,
            message_type |-> page[i].message_type,
            timestamp |-> page[i].timestamp]]

\* Mutant of get_task_history: the rows are listed oldest first.
get_task_history_ascending(w, thread_id, limit, offset, status) ==
    LET rows == SelectSeq(w.task_history, LAMBDA r :
                    /\ r.thread_id = thread_id
                    /\ status # None => r.status = status)
        page == Take(Skip(rows, offset), limit)
    IN [i \in 1..Len(page) |->
           [task_id |-> page[i].task_id, content |-> page[i].content,
            status |-> page[i].status, created_at |-> page[i].created_at,
            completed_at |-> page[i].completed_at,
            metadata |-> page[i].metadata]]

\* MemorySaver.get_task_history: SELECT ... WHERE thread_id = ?
\* [AND status = ?] ORDER BY id DESC LIMIT ? OFFSET ?.
get_task_history(w, thread_id, limit, offset, status) ==
    LET rows == SelectSeq(w.task_history, LAMBDA r :
                    /\ r.thread_id = thread_id
                    /\ status # None => r.status = status)
        page == Take(Skip(Descending(rows), offset), limit)
    IN [i \in 1..Len(page) |->
           [task_id |-> page[i].task_id, content |-> page[i].content,
            status |-> page[i].status, created_at |-> page[i].created_at,
            completed_at |-> page[i].completed_at,
            metadata |-> page[i].metadata]]

\* The rows of a table that are not of thread_id: DELETE ... WHERE
\* thread_id = ?.
DeleteThread(rows, thread_id) ==
    SelectSeq(rows, LAMBDA r : r.thread_id # thread_id)

\* Mutant of clear_thread: the task logs are kept.
clear_thread_keep_logs(w, thread_id) ==
    [w EXCEPT !.memory = DeleteThread(@, thread_id),
              !.phase_results = DeleteThread(@, thread_id),
              !.task_history = DeleteThread(@, thread_id)]

\* MemorySaver.clear_thread
clear_thread(w, thread_id) ==
    [w EXCEPT !.memory = DeleteThread(@, thread_id),
              !.phase_results = DeleteThread(@, thread_id),
              !.task_history = DeleteThread(@, thread_id),
              !.task_logs = DeleteThread(@, thread_id)]

\* MemorySaver.clear_all
clear_all(w) ==
    [w EXCEPT !.memory = <<>>, !.phase_results = <<>>,
              !.task_history = <<>>, !.task_logs = <<>>]

\* json.dumps and json.loads on the values stored: a string or None comes
\* back as it went in, a tuple comes back as a list.
json_dumps(value) == [json |-> IF value = "tuple" THEN "list" ELSE value]
json_loads(text) == text.json

\* Rows of memory selected by WHERE thread_id = ? AND key = ?.
MemoryRows(mem, thread_id, key) ==
    {i \in 1..Len(mem) : mem[i].thread_id = thread_id /\ mem[i].key = key}

\* Rows of phase_results selected by
\* WHERE thread_id = ? AND task_id = ? AND phase = ?.
PhaseRows(res, thread_id, task_id, phase) ==
    {i \in 1..Len(res) :
        /\ res[i].thread_id = thread_id
        /\ res[i].task_id = task_id
        /\ res[i].phase = phase}

\* cursor.fetchone() on a non-empty selection: the row of lowest rowid.
First(rows) == CHOOSE i \in rows : \A j \in rows : i <= j

\* Mutant of store: a plain INSERT, the row of the same key is kept.
store_insert(w, key, value, thread_id) ==
    [w EXCEPT !.memory = Append(@,
        [thread_id |-> thread_id, key |-> key, value |-> json_dumps(value),
         timestamp |-> w.now])]

\* MemorySaver.store: INSERT OR REPLACE under PRIMARY KEY (thread_id, key):
\* the row of that key, if any, is deleted and the new row inserted.
store(w, key, value, thread_id) ==
    [w EXCEPT !.memory = Append(
        SelectSeq(@, LAMBDA r : ~(r.thread_id = thread_id /\ r.key = key)),
        [thread_id |-> thread_id, key |-> key, value |-> json_dumps(value),
         timestamp |-> w.now])]

\* Mutant of retrieve: no second lookup in the "global" partition.
retrieve_no_fallback(w, key, thread_id, default) ==
    IF MemoryRows(w.memory, thread_id, key) # {}
    THEN json_loads(w.memory[First(MemoryRows(w.memory, thread_id, key))].value)
    ELSE default

\* MemorySaver.retrieve: the thread's row, else for a thread other than
\* "global" the row of "global", else the default.
retrieve(w, key, thread_id, default) ==
    LET own == MemoryRows(w.memory, thread_id, key)
        glob == MemoryRows(w.memory, "global", key)
    IN IF own # {} THEN json_loads(w.memory[First(own)].value)
       ELSE IF thread_id # "global" /\ glob # {}
       THEN json_loads(w.memory[First(glob)].value)
       ELSE default

\* MemorySaver.store_phase_result: INSERT OR REPLACE under
\* PRIMARY KEY (thread_id, task_id, phase).
store_phase_result(w, phase, result, task_id, thread_id) ==
    [w EXCEPT !.phase_results = Append(
        SelectSeq(@, LAMBDA r : ~(/\ r.thread_id = thread_id
                                  /\ r.task_id = task_id
                                  /\ r.phase = phase)),
        [thread_id |-> thread_id, task_id |-> task_id, phase |-> phase,
         result |-> json_dumps(result), timestamp |-> w.now])]

\* MemorySaver.retrieve_phase_result
retrieve_phase_result(w, phase, task_id, thread_id, default) ==
    LET own == PhaseRows(w.phase_results, thread_id, task_id, phase)
        glob == PhaseRows(w.phase_results, "global", task_id, phase)
    IN IF own # {} THEN json_loads(w.phase_results[First(own)].result)
       ELSE IF thread_id # "global" /\ glob # {}
       THEN json_loads(w.phase_results[First(glob)].result)
       ELSE default

\* -------------------------------------------------------- ConnectionState
\* Mutant of add_task: the task is put at the head (appendleft).
add_task_left(w, task) == [w EXCEPT !.task_queue = <<task>> \o @]

\* ConnectionState.add_task
add_task(w, task) == [w EXCEPT !.task_queue = Append(@, task)]

\* ConnectionState.get_next_task
get_next_task(w) == IF w.task_queue = <<>> THEN NoTask ELSE w.task_queue[1]

\* Mutant of pop_next_task: the newest task is taken (pop, not popleft).
pop_next_task_right(w) ==
    IF w.task_queue = <<>> THEN [task |-> NoTask, w |-> w]
    ELSE [task |-> w.task_queue[Len(w.task_queue)],
          w |-> [w EXCEPT !.task_queue = SubSeq(@, 1, Len(@) - 1)]]

\* ConnectionState.pop_next_task: the task returned and the state left.
pop_next_task(w) ==
    IF w.task_queue = <<>> THEN [task |-> NoTask, w |-> w]
    ELSE [task |-> Head(w.task_queue),
          w |-> [w EXCEPT !.task_queue = Tail(@)]]

\* Mutant of ConnectionState.mark_task_complete: any task_id is completed.
mark_task_complete_any(w, task_id) ==
    [w EXCEPT !.current_task_id = IF task_id = @ THEN None ELSE @,
              !.is_processing = IF task_id = w.current_task_id
                                THEN FALSE ELSE @,
              !.completed_tasks = Append(@, task_id)]

\* Mutant of ConnectionState.mark_task_complete: current_task_id is kept.
mark_task_complete_keep_id(w, task_id) ==
    IF task_id = w.current_task_id
    THEN [w EXCEPT !.is_processing = FALSE,
                   !.completed_tasks = Append(@, task_id)]
    ELSE w

\* ConnectionState.mark_task_complete
mark_task_complete(w, task_id) ==
    IF task_id = w.current_task_id
    THEN [w EXCEPT !.current_task_id = None,
                   !.is_processing = FALSE,
                   !.completed_tasks = Append(@, task_id)]
    ELSE w

\* ConnectionState.has_pending_tasks
has_pending_tasks(w) == Len(w.task_queue) > 0

\* deque.remove(task): drops the first entry equal to task.
Remove(q, i) == SubSeq(q, 1, i - 1) \o SubSeq(q, i + 1, Len(q))

\* Index of the first queue entry with this task_id, 0 when there is none
\* (the for/else loops of the cancel and get_task_status handlers).
QueueIndex(q, task_id) ==
    IF \E i \in 1..Len(q) : q[i].task_id = task_id
    THEN CHOOSE i \in 1..Len(q) :
            /\ q[i].task_id = task_id
            /\ \A j \in 1..(i - 1) : q[j].task_id # task_id
    ELSE 0

\* Mutant of ConnectionState.cancel_task: a cancelled active task is also
\* appended to completed_tasks.
cancel_task_completes(w, task_id) ==
    IF task_id = w.current_task_id
    THEN [found |-> TRUE,
          w |-> [w EXCEPT !.current_task_id = None, !.is_processing = FALSE,
                          !.completed_tasks = Append(@, task_id)]]
    ELSE IF QueueIndex(w.task_queue, task_id) # 0
    THEN [found |-> TRUE,
          w |-> [w EXCEPT !.task_queue =
                    Remove(@, QueueIndex(@, task_id))]]
    ELSE [found |-> FALSE, w |-> w]

\* ConnectionState.cancel_task: the value returned and the state left.  The
\* queue entry found by task_id is handed to deque.remove, which drops the
\* first entry equal to it.
cancel_task(w, task_id) ==
    IF task_id = w.current_task_id
    THEN [found |-> TRUE,
          w |-> [w EXCEPT !.current_task_id = None, !.is_processing = FALSE]]
    ELSE IF QueueIndex(w.task_queue, task_id) # 0
    THEN LET q == w.task_queue
             task == q[QueueIndex(q, task_id)]
             i == CHOOSE i \in 1..Len(q) :
                     /\ q[i] = task
                     /\ \A j \in 1..(i - 1) : q[j] # task
         IN [found |-> TRUE, w |-> [w EXCEPT !.task_queue = Remove(@, i)]]
    ELSE [found |-> FALSE, w |-> w]

\* ------------------------------------------------------- EnhancedRAServer
Event(type, task_id) ==
    [type |-> type, task_id |-> task_id, phase |-> None, position |-> 0,
     status |-> None, model |-> None, research_only |-> FALSE,
     queued_tasks |-> <<>>]

\* Mutant of remove_connection: the ConnectionState stays registered.
remove_connection_keep_state(w, client_id) ==
    [w EXCEPT !.active_connections = @ \ {client_id}]

\* WebSocketManager.remove_connection: both maps pop the client id.
remove_connection(w, client_id) ==
    [w EXCEPT !.active_connections = @ \ {client_id},
              !.connection_states = @ \ {client_id}]

\* Mutant of send_update: a send_json that raises is only logged.
send_update_keep(w, client_id, data) ==
    IF client_id \in w.active_connections
    THEN IF w.websocket.open
         THEN [Did(w, "send_update", data.task_id, data.type, data.phase)
                  EXCEPT !.sent = Append(@, data)]
         ELSE [w EXCEPT !.websocket.errors = @ + 1]
    ELSE w

\* EnhancedRAServer.send_update: sends only to a client whose websocket is
\* registered; a send_json that raises (the transport is closed) is caught
\* and the connection removed.
send_update(w, client_id, data) ==
    IF client_id \in w.active_connections
    THEN IF w.websocket.open
         THEN [Did(w, "send_update", data.task_id, data.type, data.phase)
                  EXCEPT !.sent = Append(@, data)]
         ELSE remove_connection([w EXCEPT !.websocket.errors = @ + 1],
                                client_id)
    ELSE w

\* process_next_task from "Start <phase> phase" up to the await of the
\* phase's agent: the coroutine is then suspended in `pipelines`.
StartPhase(w, task, phase) ==
    LET w1 == [w EXCEPT !.current_phase = phase]
        w2 == log_task_message(w1, task.task_id, Text("Starting", phase, 0),
                               "phase_change", ClientId)
        w3 == send_update(w2, ClientId,
                [Event("phase_started", task.task_id) EXCEPT !.phase = phase])
    IN [w3 EXCEPT !.pipelines = @ \cup {[task |-> task, phase |-> phase]}]

\* Mutant of process_next_task: no is_processing guard.
process_next_task_reentrant(w) ==
    LET r == pop_next_task(w) IN
    IF r.task = NoTask THEN w
    ELSE LET w1 == [r.w EXCEPT !.current_task_id = r.task.task_id,
                               !.is_processing = TRUE,
                               !.started = Append(@, r.task.created_at)]
             w2 == store_task(w1, r.task.task_id, r.task.content,
                              ClientId, "in_progress", NoMeta)
         IN StartPhase(w2, r.task, "research")

\* EnhancedRAServer.process_next_task, up to its first suspension.
process_next_task(w) ==
    IF w.is_processing THEN w
    ELSE LET r == pop_next_task(w) IN
         IF r.task = NoTask THEN w
         ELSE LET w1 == [r.w EXCEPT !.current_task_id = r.task.task_id,
                                    !.is_processing = TRUE,
                                    !.started = Append(@, r.task.created_at)]
                  w2 == store_task(w1, r.task.task_id, r.task.content,
                                   ClientId, "in_progress", NoMeta)
              IN StartPhase(w2, r.task, "research")

\* Mutant of FinishTask: the next queued task is not started.
FinishTask_NoNext(w, task_id) == mark_task_complete(w, task_id)

\* The tail shared by the three ends of process_next_task:
\* state.mark_task_complete, then the next queued task if there is one.
FinishTask(w, task_id) ==
    LET w1 == mark_task_complete(w, task_id)
    IN IF has_pending_tasks(w1) THEN process_next_task(w1) ELSE w1

\* The type of the event that carries a phase's result.
CompleteEvent(phase) ==
    CASE phase = "research" -> "research_complete"
      [] phase = "planning" -> "planning_complete"
      [] phase = "implementation" -> "implementation_complete"

\* Mutant of PhaseDone: the result is sent before the completion is logged.
PhaseDone_NotifyFirst(w, task, phase) ==
    LET w1 == send_update(w, ClientId,
                          Event(CompleteEvent(phase), task.task_id))
    IN log_task_message(w1, task.task_id, Text("Completed", phase, 0),
                        "phase_complete", ClientId)

\* Log and event after a phase's agent returned.
PhaseDone(w, task, phase) ==
    LET w1 == log_task_message(w, task.task_id, Text("Completed", phase, 0),
                               "phase_complete", ClientId)
    IN send_update(w1, ClientId, Event(CompleteEvent(phase), task.task_id))

\* "Log task completion", task_complete, memory.mark_task_complete and the
\* hand-over to the next task.
CompleteTask(w, task, text, metadata) ==
    LET w1 == log_task_message(w, task.task_id, Text(text, None, 0),
                               "complete", ClientId)
        w2 == send_update(w1, ClientId, Event("task_complete", task.task_id))
        w3 == memory_mark_task_complete(w2, task.task_id, ClientId, metadata)
    IN FinishTask(w3, task.task_id)

\* Mutant of ResumeReturned: planning is skipped.
ResumeReturned_SkipPlanning(w, f) ==
    LET w0 == store_phase_result(
                 [w EXCEPT !.pipelines = @ \ {f}, !.nsteps = @ + 1],
                 f.phase, "result", f.task.task_id, ClientId)
        w1 == PhaseDone(w0, f.task, f.phase)
    IN IF f.phase = "research"
       THEN IF w1.research_only
            THEN CompleteTask(w1, f.task,
                    "Task completed in research-only mode",
                    [kind |-> "research_only", phase |-> None, model |-> None])
            ELSE StartPhase(w1, f.task, "implementation")
       ELSE CompleteTask(w1, f.task, "Task completed successfully",
                [kind |-> "phases_completed", phase |-> None,
                 model |-> w1.model])

\* Mutant of ResumeReturned: research_only is not looked at.
ResumeReturned_IgnoreResearchOnly(w, f) ==
    LET w0 == store_phase_result(
                 [w EXCEPT !.pipelines = @ \ {f}, !.nsteps = @ + 1],
                 f.phase, "result", f.task.task_id, ClientId)
        w1 == PhaseDone(w0, f.task, f.phase)
    IN IF f.phase = "research"
       THEN StartPhase(w1, f.task, "planning")
       ELSE IF f.phase = "planning"
       THEN StartPhase(w1, f.task, "implementation")
       ELSE CompleteTask(w1, f.task, "Task completed successfully",
                [kind |-> "phases_completed", phase |-> None,
                 model |-> w1.model])

\* process_next_task resumed by its agent returning: the agent has stored
\* its phase result; the coroutine runs to its next suspension or its end.
ResumeReturned(w, f) ==
    LET w0 == store_phase_result(
                 [w EXCEPT !.pipelines = @ \ {f}, !.nsteps = @ + 1],
                 f.phase, "result", f.task.task_id, ClientId)
        w1 == PhaseDone(w0, f.task, f.phase)
    IN IF f.phase = "research"
       THEN IF w1.research_only
            THEN CompleteTask(w1, f.task,
                    "Task completed in research-only mode",
                    [kind |-> "research_only", phase |-> None, model |-> None])
            ELSE StartPhase(w1, f.task, "planning")
       ELSE IF f.phase = "planning"
       THEN StartPhase(w1, f.task, "implementation")
       ELSE CompleteTask(w1, f.task, "Task completed successfully",
                [kind |-> "phases_completed", phase |-> None,
                 model |-> w1.model])

\* process_next_task resumed by its agent raising: the except branch.
ResumeRaised(w, f) ==
    LET w0 == [w EXCEPT !.pipelines = @ \ {f}, !.raised = f,
                        !.nsteps = @ + 1]
        w1 == log_task_message(w0, f.task.task_id,
                               Text("Error during task execution", None, 0),
                               "error", ClientId)
        w2 == store_task(w1, f.task.task_id, f.task.content, ClientId, "error",
                  [kind |-> "error", phase |-> w1.current_phase,
                   model |-> None])
        w3 == send_update(w2, ClientId, Event("error", f.task.task_id))
    IN FinishTask(w3, f.task.task_id)

\* ---------------------------------------------------------------- messages
Message(type, content, task_id) ==
    [type |-> type, content |-> content, task_id |-> task_id,
     config |-> NoConfig]

\* Task ids a client can name: its own, and the generated ones it was sent.
KnownIds(n) == TaskIds \cup {GenIds[i] : i \in 1..n}

\* task_id = None is a message without the key; content "" is empty content,
\* content None a message without content.
TaskMessages ==
    {Message("task", "do", id) : id \in TaskIds \cup {None}}
        \cup {Message("task", "", None), Message("task", None, None)}
GetTaskStatusMessages(n) ==
    {Message("get_task_status", None, id) : id \in KnownIds(n) \cup {None}}
GetTaskLogsMessages(n) ==
    {Message("get_task_logs", None, id) : id \in KnownIds(n) \cup {None}}
MarkCompleteMessages(n) ==
    {Message("mark_complete", None, id) : id \in KnownIds(n) \cup {None}}
CancelMessages(n) ==
    {Message("cancel", None, id) : id \in KnownIds(n) \cup {None}}
ConfigUpdateMessages ==
    {[Message("config_update", None, None) EXCEPT !.config = c] :
        c \in {[keys |-> {"research_only"}, model |-> None, research_only |-> b] :
                  b \in BOOLEAN}
              \cup {[keys |-> {"model"}, model |-> "m2", research_only |-> FALSE],
                    [keys |-> {"is_processing"}, model |-> None,
                     research_only |-> TRUE]}}

\* process_message, type "task"
HandleTask(w, m) ==
    IF m.content \in {"", None}
    THEN send_update(w, ClientId, Event("error", None))
    ELSE LET task_id == IF m.task_id = None THEN GenIds[w.uuid_seq + 1]
                        ELSE m.task_id
             task == [task_id |-> task_id, content |-> m.content,
                      created_at |-> w.uuid_seq + 1]
             w1 == add_task([w EXCEPT !.uuid_seq = @ + 1], task)
             w2 == store_task(w1, task_id, m.content, ClientId, "pending",
                              NoMeta)
             w3 == log_task_message(w2, task_id, Text("Task created", None, 0), "create",
                                    ClientId)
             w4 == send_update(w3, ClientId, Event("task_received", task_id))
         IN IF ~w4.is_processing
            THEN process_next_task(w4)
            ELSE LET w5 == send_update(w4, ClientId,
                              [Event("task_queued", task_id)
                                  EXCEPT !.position = Len(w4.task_queue)])
                 IN log_task_message(w5, task_id,
                        Text("Task queued", None, Len(w5.task_queue)),
                        "queue", ClientId)

\* Mutant of HandleMarkComplete: the task_id is not validated.
HandleMarkComplete_NoCheck(w, m) ==
    LET w1 == mark_task_complete(w, m.task_id)
        w2 == memory_mark_task_complete(w1, m.task_id, ClientId, NoMeta)
        w3 == log_task_message(w2, m.task_id,
                 Text("Task marked as complete by user", None, 0), "complete", ClientId)
        w4 == send_update(w3, ClientId,
                          Event("task_marked_complete", m.task_id))
    IN IF has_pending_tasks(w4) THEN process_next_task(w4) ELSE w4

\* process_message, type "mark_complete"
HandleMarkComplete(w, m) ==
    IF m.task_id = None
    THEN send_update(w, ClientId, Event("error", None))
    ELSE LET w1 == mark_task_complete(w, m.task_id)
             w2 == memory_mark_task_complete(w1, m.task_id, ClientId, NoMeta)
             w3 == log_task_message(w2, m.task_id,
                      Text("Task marked as complete by user", None, 0), "complete", ClientId)
             w4 == send_update(w3, ClientId,
                               Event("task_marked_complete", m.task_id))
         IN IF has_pending_tasks(w4) THEN process_next_task(w4) ELSE w4

\* process_message, type "get_task_status": the active task overrides the
\* stored status, a queued entry overrides both; without task_id the reply
\* lists the current task, the queue and the history.
HandleGetTaskStatus(w, m) ==
    IF m.task_id # None
    THEN LET task_info == get_task(w.task_history, m.task_id, ClientId)
             active == m.task_id = w.current_task_id
             i == QueueIndex(w.task_queue, m.task_id)
         IN IF task_info # NoRow
            THEN send_update(w, ClientId,
                    [Event("task_status", m.task_id) EXCEPT
                        !.status = IF i # 0 THEN "queued"
                                   ELSE IF active THEN "in_progress"
                                   ELSE task_info.status,
                        !.phase = IF active THEN w.current_phase ELSE None,
                        !.position = i])
            ELSE send_update(w, ClientId, Event("error", None))
    ELSE send_update(w, ClientId,
            [Event("all_task_status", w.current_task_id) EXCEPT
                !.status = IF w.current_task_id # None
                           THEN "in_progress" ELSE None,
                !.phase = IF w.current_task_id # None
                          THEN w.current_phase ELSE None,
                !.position = Len(w.task_queue),
                !.queued_tasks =
                    [i \in 1..Len(w.task_queue) |->
                        [task_id |-> w.task_queue[i].task_id,
                         position |-> i]]])

\* process_message, type "get_task_logs": a read of the store; the entries
\* carried by the reply are not modelled.
HandleGetTaskLogs(w, m) ==
    IF m.task_id = None
    THEN send_update(w, ClientId, Event("error", None))
    ELSE send_update(w, ClientId, Event("task_logs", m.task_id))

\* Mutant of CancelTask: a queued task is cancelled by dropping the head of
\* the queue.
CancelTask_Head(w, task_id) ==
    IF task_id = w.current_task_id
    THEN LET w1 == [w EXCEPT !.current_task_id = None,
                             !.is_processing = FALSE]
             w2 == store_task(w1, task_id, "", ClientId, "cancelled", NoMeta)
             w3 == log_task_message(w2, task_id,
                      Text("Task cancelled by user while in progress", None, 0), "cancel",
                      ClientId)
             w4 == send_update(w3, ClientId, Event("task_cancelled", task_id))
         IN IF has_pending_tasks(w4) THEN process_next_task(w4) ELSE w4
    ELSE LET i == QueueIndex(w.task_queue, task_id) IN
         IF i # 0
         THEN LET w1 == [w EXCEPT !.task_queue = Tail(@)]
                  w2 == store_task(w1, task_id, "", ClientId, "cancelled",
                                   NoMeta)
                  w3 == log_task_message(w2, task_id,
                           Text("Task cancelled by user while queued", None, 0), "cancel",
                           ClientId)
              IN send_update(w3, ClientId, Event("task_cancelled", task_id))
         ELSE send_update(w, ClientId, Event("error", None))

\* process_message, type "cancel", with a task_id
CancelTask(w, task_id) ==
    IF task_id = w.current_task_id
    THEN LET w1 == [w EXCEPT !.current_task_id = None,
                             !.is_processing = FALSE]
             w2 == store_task(w1, task_id, "", ClientId, "cancelled", NoMeta)
             w3 == log_task_message(w2, task_id,
                      Text("Task cancelled by user while in progress", None, 0), "cancel",
                      ClientId)
             w4 == send_update(w3, ClientId, Event("task_cancelled", task_id))
         IN IF has_pending_tasks(w4) THEN process_next_task(w4) ELSE w4
    ELSE LET i == QueueIndex(w.task_queue, task_id) IN
         IF i # 0
         THEN LET w1 == [w EXCEPT !.task_queue = Remove(@, i)]
                  w2 == store_task(w1, task_id, "", ClientId, "cancelled",
                                   NoMeta)
                  w3 == log_task_message(w2, task_id,
                           Text("Task cancelled by user while queued", None, 0), "cancel",
                           ClientId)
              IN send_update(w3, ClientId, Event("task_cancelled", task_id))
         ELSE send_update(w, ClientId, Event("error", None))

\* The loop of the bulk cancel over the queue: store and log each task.
RECURSIVE CancelQueued(_, _)
CancelQueued(w, q) ==
    IF q = <<>> THEN w
    ELSE LET w1 == store_task(w, Head(q).task_id, "", ClientId, "cancelled",
                              NoMeta)
             w2 == log_task_message(w1, Head(q).task_id,
                      Text("Task cancelled as part of bulk cancellation", None, 0), "cancel",
                      ClientId)
         IN CancelQueued(w2, Tail(q))

\* process_message, type "cancel", without a task_id
CancelAll(w) ==
    LET w1 == [w EXCEPT !.current_task_id = None, !.is_processing = FALSE]
        w2 == CancelQueued(w1, w1.task_queue)
        w3 == [w2 EXCEPT !.task_queue = <<>>]
    IN send_update(w3, ClientId, Event("all_tasks_cancelled", None))

HandleCancel(w, m) ==
    IF m.task_id # None THEN CancelTask(w, m.task_id) ELSE CancelAll(w)

\* Mutant of HandleConfigUpdate: setattr for every key of config.
HandleConfigUpdate_AnyKey(w, m) ==
    LET w1 == [w EXCEPT
                 !.model = IF "model" \in m.config.keys
                           THEN m.config.model ELSE @,
                 !.research_only = IF "research_only" \in m.config.keys
                                   THEN m.config.research_only ELSE @,
                 !.is_processing = IF "is_processing" \in m.config.keys
                                   THEN TRUE ELSE @]
    IN send_update(w1, ClientId,
          [Event("config_updated", None) EXCEPT
              !.model = w1.model, !.research_only = w1.research_only])

\* process_message, type "config_update"
HandleConfigUpdate(w, m) ==
    LET w1 == [w EXCEPT
                 !.model = IF "model" \in m.config.keys
                           THEN m.config.model ELSE @,
                 !.research_only = IF "research_only" \in m.config.keys
                                   THEN m.config.research_only ELSE @]
    IN send_update(w1, ClientId,
          [Event("config_updated", None) EXCEPT
              !.model = w1.model, !.research_only = w1.research_only])

\* EnhancedRAServer.process_message
process_message(w, m) ==
    CASE m.type = "task" -> HandleTask(w, m)
      [] m.type = "mark_complete" -> HandleMarkComplete(w, m)
      [] m.type = "get_task_status" -> HandleGetTaskStatus(w, m)
      [] m.type = "get_task_logs" -> HandleGetTaskLogs(w, m)
      [] m.type = "cancel" -> HandleCancel(w, m)
      [] m.type = "config_update" -> HandleConfigUpdate(w, m)
      [] OTHER -> send_update(w, ClientId, Event("error", None))

\* ------------------------------------------------------------------ actions
QueueVars == <<added, popped, last_call>>

\* No queue method called yet.  A call is recorded with the queue it found,
\* the task it returned (NoTask for None) and, for has_pending_tasks, its
\* boolean result.
NoCall == [op |-> "none", before |-> <<>>, task |-> NoTask, flag |-> FALSE,
           n |-> 0]

\* The state once the server is constructed and the websocket endpoint has
\* accepted the connection of ClientId: ConnectionState.__init__ with the
\* configured model and research_only, add_connection, connection_established.
Init ==
    /\ model = ConfigModel
    /\ research_only \in BOOLEAN
    /\ current_phase = None
    /\ current_task_id = None
    /\ task_queue = <<>>
    /\ completed_tasks = <<>>
    /\ is_processing = FALSE
    /\ active_connections = {ClientId}
    /\ connection_states = {ClientId}
    /\ websocket = OpenSocket
    /\ task_history = <<>>
    /\ task_logs = <<>>
    /\ phase_results = <<>>
    /\ now = 1
    /\ sent = <<Event("connection_established", None)>>
    /\ inbox = <<>>
    /\ pipelines = {}
    /\ uuid_seq = 0
    /\ nmsgs = 0
    /\ started = <<>>
    /\ raised = NoFrame
    /\ trace = <<>>
    /\ added = <<>>
    /\ popped = <<>>
    /\ last_call = NoCall
    /\ handled = NoMessage
    /\ nsteps = 0
    /\ peer = [NoPeer EXCEPT !.research_only = research_only]
    /\ memory = <<>>
    /\ store_call = NoRead
    /\ connections = <<Accepted(ClientId, 1)>>
    /\ manager = add_connection(NoConnections, ClientId, 1)
    /\ lock = None
    /\ workers = [t \in Workers |-> NoStoreCall]

\* process_message called with message m.
Call(m) ==
    /\ nmsgs < MaxCalls
    /\ Commit(process_message(
                 [World EXCEPT !.nmsgs = @ + 1, !.handled = m], m))
    /\ UNCHANGED QueueVars

TaskMsg == \E m \in TaskMessages : Call(m)
MarkCompleteMsg == \E m \in MarkCompleteMessages(uuid_seq) : Call(m)
CancelMsg == \E m \in CancelMessages(uuid_seq) : Call(m)
ConfigUpdateMsg == \E m \in ConfigUpdateMessages : Call(m)
GetTaskStatusMsg == \E m \in GetTaskStatusMessages(uuid_seq) : Call(m)
GetTaskLogsMsg == \E m \in GetTaskLogsMessages(uuid_seq) : Call(m)

\* A phase collaborator returns its result to the pipeline awaiting it.
AgentReturns ==
    \E f \in pipelines :
        /\ Commit(ResumeReturned(World, f))
        /\ UNCHANGED QueueVars

\* A phase collaborator raises.
AgentRaises ==
    \E f \in pipelines :
        /\ Commit(ResumeRaised(World, f))
        /\ UNCHANGED QueueVars

Next ==
    \/ TaskMsg
    \/ MarkCompleteMsg
    \/ CancelMsg
    \/ ConfigUpdateMsg
    \/ GetTaskStatusMsg
    \/ GetTaskLogsMsg
    \/ AgentReturns
    \/ AgentRaises

Spec == Init /\ [][Next]_vars

\* Spec with every collaborator call ending: an agent awaits asyncio.sleep
\* and then returns or raises, so a suspended pipeline is resumed.  This is
\* weak fairness of the collaborator steps, written out: the steps are
\* enabled exactly when a pipeline is suspended.
AgentEnds == AgentReturns \/ AgentRaises
SpecFair == Spec /\ ([]<>(pipelines = {}) \/ []<><<AgentEnds>>_vars)

\* ------------------------------------------------ cancellation with a queue
\* process_message called directly, as in Spec, with task and cancel
\* messages only and room for a fourth call, so that a cancel finds one task
\* active and two queued; the collaborator calls that end are capped.
MaxCancelCalls == 4
MaxAgentSteps == 1

DirectCall(m) ==
    /\ nmsgs < MaxCancelCalls
    /\ Commit(process_message(
                 [World EXCEPT !.nmsgs = @ + 1, !.handled = m], m))
    /\ UNCHANGED QueueVars

SubmitTask ==
    \E m \in {Message("task", "do", id) : id \in TaskIds \cup {None}} :
        DirectCall(m)
CancelCall == \E m \in CancelMessages(uuid_seq) : DirectCall(m)
AgentReturnsEarly == nsteps < MaxAgentSteps /\ AgentReturns
AgentRaisesEarly == nsteps < MaxAgentSteps /\ AgentRaises

NextCancel ==
    \/ SubmitTask
    \/ CancelCall
    \/ AgentReturnsEarly
    \/ AgentRaisesEarly

SpecCancel == Init /\ [][NextCancel]_vars

\* The same driver with task and get_task_status messages: a status request
\* finds one task active and up to two queued.
StatusCall == \E m \in GetTaskStatusMessages(uuid_seq) : DirectCall(m)

NextStatus ==
    \/ SubmitTask
    \/ StatusCall
    \/ AgentReturnsEarly
    \/ AgentRaisesEarly

SpecStatus == Init /\ [][NextStatus]_vars

\* The client writes a message to the socket; `busy` records whether a task
\* was being processed when it arrived.
ClientSend ==
    /\ nmsgs < MaxMsgs
    /\ Len(inbox) < MaxInbox
    /\ \E m \in TaskMessages \cup MarkCompleteMessages(uuid_seq)
                \cup CancelMessages(uuid_seq) \cup ConfigUpdateMessages
                \cup GetTaskStatusMessages(uuid_seq)
                \cup GetTaskLogsMessages(uuid_seq) :
          inbox' = Append(inbox, [msg |-> m, busy |-> is_processing])
    /\ nmsgs' = nmsgs + 1
    /\ raised' = NoFrame
    /\ trace' = <<>>
    /\ UNCHANGED <<connections, manager, lock, workers>>
    /\ handled' = NoMessage
    /\ UNCHANGED <<model, research_only, current_phase, current_task_id,
                   task_queue, completed_tasks, is_processing,
                   active_connections, connection_states, websocket,
                   task_history, task_logs, phase_results,
                   now, sent, pipelines, uuid_seq, started, QueueVars,
                   nsteps, peer, memory, store_call>>

\* Mutant of ReceiveJson: the handler is started as a task of its own and
\* the loop reads on without awaiting it.
ReceiveJson_NoAwait ==
    /\ inbox # <<>>
    /\ Commit(process_message(
                 [World EXCEPT !.inbox = Tail(@), !.handled = Head(inbox).msg],
                 Head(inbox).msg))
    /\ UNCHANGED QueueVars

\* One turn of the loop of websocket_endpoint: receive_json, then
\* process_message awaited.  The loop is back at receive_json only when the
\* handler and every pipeline it awaits have returned.
ReceiveJson ==
    /\ pipelines = {}
    /\ inbox # <<>>
    /\ Commit(process_message(
                 [World EXCEPT !.inbox = Tail(@), !.handled = Head(inbox).msg],
                 Head(inbox).msg))
    /\ UNCHANGED QueueVars

NextEndpoint ==
    \/ ClientSend
    \/ ReceiveJson
    \/ AgentReturns
    \/ AgentRaises

SpecEndpoint == Init /\ [][NextEndpoint]_vars

\* ------------------------------------------------------- connection close
\* Spec with the connection of ClientId closing.  The client closes the
\* transport at any time; from then on send_json raises.  The close event
\* reaches websocket_endpoint as WebSocketDisconnect and ends its receive
\* loop.  process_message is called directly as in Spec, also after the
\* close, so that handlers and pipelines run against the emptied registry.
MaxCloseCalls == 2

CloseCall ==
    /\ nmsgs < MaxCloseCalls
    /\ \E m \in TaskMessages \cup MarkCompleteMessages(uuid_seq)
                \cup CancelMessages(uuid_seq) \cup ConfigUpdateMessages
                \cup GetTaskStatusMessages(uuid_seq)
                \cup GetTaskLogsMessages(uuid_seq) :
          Commit(process_message(
                    [World EXCEPT !.nmsgs = @ + 1, !.handled = m], m))
    /\ UNCHANGED QueueVars

ClientCloses ==
    /\ websocket.open
    /\ websocket' = [websocket EXCEPT !.open = FALSE]
    /\ raised' = NoFrame
    /\ trace' = <<>>
    /\ UNCHANGED <<connections, manager, lock, workers>>
    /\ handled' = NoMessage
    /\ UNCHANGED <<model, research_only, current_phase, current_task_id,
                   task_queue, completed_tasks, is_processing,
                   active_connections, connection_states,
                   task_history, task_logs, phase_results,
                   now, sent, inbox, pipelines, uuid_seq, nmsgs, started,
                   QueueVars, nsteps, peer, memory, store_call>>

\* websocket_endpoint, except WebSocketDisconnect: remove_connection.
Disconnect ==
    /\ ~websocket.open
    /\ websocket.receiving
    /\ Commit(remove_connection(
                 [World EXCEPT !.websocket.receiving = FALSE], ClientId))
    /\ UNCHANGED QueueVars

NextClose ==
    \/ CloseCall
    \/ AgentReturns
    \/ AgentRaises
    \/ ClientCloses
    \/ Disconnect

SpecClose == Init /\ [][NextClose]_vars

\* ------------------------------------------------------------ two sessions
\* Two connections, of ClientId and of PeerId, on one server: each has its
\* own websocket_endpoint coroutine and ConnectionState, both share the
\* registry, the store and the uuid source.  The handlers and pipeline steps
\* of PeerId are those of ClientId with the two client ids exchanged.
MaxSessionMsgs == 2

SessionMessages ==
    {Message("task", "do", "A"), Message("task", "do", None),
     Message("mark_complete", None, "A"), Message("cancel", None, None)}

SwapId(t) == IF t = ClientId THEN PeerId ELSE IF t = PeerId THEN ClientId ELSE t
SwapRows(rows) ==
    [i \in 1..Len(rows) |-> [rows[i] EXCEPT !.thread_id = SwapId(@)]]

\* The state as the handlers of PeerId see it.
PeerWorld ==
    [World EXCEPT
        !.model = peer.model, !.research_only = peer.research_only,
        !.current_phase = peer.current_phase,
        !.current_task_id = peer.current_task_id,
        !.task_queue = peer.task_queue,
        !.completed_tasks = peer.completed_tasks,
        !.is_processing = peer.is_processing,
        !.sent = peer.sent, !.inbox = peer.inbox,
        !.pipelines = peer.pipelines, !.started = peer.started,
        !.active_connections = {SwapId(c) : c \in @},
        !.connection_states = {SwapId(c) : c \in @},
        !.task_history = SwapRows(@), !.task_logs = SwapRows(@),
        !.phase_results = SwapRows(@), !.memory = SwapRows(@)]

\* The ConnectionState and transport of ClientId.
ClientSession ==
    <<model, research_only, current_phase, current_task_id, task_queue,
      completed_tasks, is_processing, sent, inbox, pipelines, started>>

CommitPeer(w) ==
    /\ peer' = [connected |-> TRUE, model |-> w.model,
                research_only |-> w.research_only,
                current_phase |-> w.current_phase,
                current_task_id |-> w.current_task_id,
                task_queue |-> w.task_queue,
                completed_tasks |-> w.completed_tasks,
                is_processing |-> w.is_processing,
                sent |-> w.sent, inbox |-> w.inbox,
                pipelines |-> w.pipelines, started |-> w.started]
    /\ active_connections' = {SwapId(c) : c \in w.active_connections}
    /\ connection_states' = {SwapId(c) : c \in w.connection_states}
    /\ task_history' = SwapRows(w.task_history)
    /\ task_logs' = SwapRows(w.task_logs)
    /\ phase_results' = SwapRows(w.phase_results)
    /\ memory' = SwapRows(w.memory)
    /\ now' = w.now
    /\ uuid_seq' = w.uuid_seq
    /\ nmsgs' = w.nmsgs
    /\ nsteps' = w.nsteps
    /\ raised' = NoFrame
    /\ trace' = <<>>
    /\ UNCHANGED <<connections, manager, lock, workers>>
    /\ handled' = NoMessage
    /\ UNCHANGED <<ClientSession, QueueVars, store_call, websocket>>

\* websocket_endpoint for PeerId up to its receive loop.
PeerConnect ==
    /\ ~peer.connected
    /\ peer' = [peer EXCEPT !.connected = TRUE,
                            !.sent = <<Event("connection_established", None)>>]
    /\ active_connections' = active_connections \cup {PeerId}
    /\ connection_states' = connection_states \cup {PeerId}
    /\ raised' = NoFrame
    /\ trace' = <<>>
    /\ UNCHANGED <<connections, manager, lock, workers>>
    /\ handled' = NoMessage
    /\ UNCHANGED <<ClientSession, QueueVars, store_call, websocket,
                   task_history,
                   task_logs, phase_results, memory, now, uuid_seq, nmsgs,
                   nsteps>>

SessionSend ==
    /\ nmsgs < MaxSessionMsgs
    /\ \E m \in SessionMessages :
          inbox' = Append(inbox, [msg |-> m, busy |-> is_processing])
    /\ nmsgs' = nmsgs + 1
    /\ raised' = NoFrame
    /\ trace' = <<>>
    /\ UNCHANGED <<connections, manager, lock, workers>>
    /\ handled' = NoMessage
    /\ UNCHANGED <<model, research_only, current_phase, current_task_id,
                   task_queue, completed_tasks, is_processing,
                   active_connections, connection_states, websocket,
                   task_history, task_logs, phase_results,
                   now, sent, pipelines, uuid_seq, started, QueueVars,
                   nsteps, peer, memory, store_call>>

PeerSend ==
    /\ peer.connected
    /\ nmsgs < MaxSessionMsgs
    /\ \E m \in SessionMessages :
          peer' = [peer EXCEPT !.inbox =
                      Append(@, [msg |-> m, busy |-> peer.is_processing])]
    /\ nmsgs' = nmsgs + 1
    /\ raised' = NoFrame
    /\ trace' = <<>>
    /\ UNCHANGED <<connections, manager, lock, workers>>
    /\ handled' = NoMessage
    /\ UNCHANGED <<ClientSession, QueueVars, store_call, active_connections,
                   connection_states, websocket, task_history, task_logs, phase_results, memory, now,
                   uuid_seq, nsteps>>

PeerReceiveJson ==
    /\ peer.connected
    /\ peer.pipelines = {}
    /\ peer.inbox # <<>>
    /\ CommitPeer(process_message([PeerWorld EXCEPT !.inbox = Tail(@)],
                                  Head(peer.inbox).msg))

PeerAgentReturns ==
    \E f \in peer.pipelines : CommitPeer(ResumeReturned(PeerWorld, f))

PeerAgentRaises ==
    \E f \in peer.pipelines : CommitPeer(ResumeRaised(PeerWorld, f))

NextSessions ==
    \/ SessionSend
    \/ ReceiveJson
    \/ AgentReturns
    \/ AgentRaises
    \/ PeerConnect
    \/ PeerSend
    \/ PeerReceiveJson
    \/ PeerAgentReturns
    \/ PeerAgentRaises

SpecSessions == Init /\ [][NextSessions]_vars

\* SpecSessions with the coroutine of PeerId scheduled: its receive loop
\* reads a waiting message and its collaborator calls end (weak fairness of
\* PeerReceiveJson and of PeerAgentEnds, written out).  Nothing is assumed
\* of ClientId: its collaborator call may never return.
PeerAgentEnds == PeerAgentReturns \/ PeerAgentRaises
SpecSessionsFair ==
    /\ SpecSessions
    /\ []<>(peer.pipelines # {} \/ peer.inbox = <<>>)
          \/ []<><<PeerReceiveJson>>_vars
    /\ []<>(peer.pipelines = {}) \/ []<><<PeerAgentEnds>>_vars

\* ------------------------------------------------- the store on its own
\* The MemorySaver methods called directly, as tests/test_memory_repository.py
\* calls them, by the threads "global", ClientId and PeerId.
MaxStoreOps == 3
MaxTaskOps == 3
MaxClock == 3

Threads == {"global", ClientId, PeerId}
Keys == {"k1", "k2"}
Values == {"v1", "tuple"}
Results == {"v1", "v2"}
ErrorMeta == [kind |-> "error", phase |-> "research", model |-> None]

\* Everything but the tables of the store, its clock and store_call.
NonStoreVars ==
    <<ClientSession, active_connections, connection_states, websocket,
      uuid_seq, nmsgs, raised, handled, nsteps, trace, peer, QueueVars,
      connections, manager, lock, workers>>

\* memory.store(key, value, thread_id)
Store ==
    /\ store_call.n < MaxStoreOps
    /\ \E key \in Keys, value \in Values, thread_id \in Threads :
          /\ memory' = store(World, key, value, thread_id).memory
          /\ store_call' = [NoRead EXCEPT !.op = "store", !.key = key,
                               !.value = value, !.thread_id = thread_id,
                               !.n = store_call.n + 1]
    /\ UNCHANGED <<phase_results, task_history, task_logs, now, NonStoreVars>>

\* memory.retrieve(key, thread_id, default)
Retrieve ==
    /\ store_call.n < MaxStoreOps
    /\ \E key \in Keys, thread_id \in Threads :
          store_call' = [NoRead EXCEPT !.op = "retrieve", !.key = key,
                            !.thread_id = thread_id, !.default = "default",
                            !.result = retrieve(World, key, thread_id, "default"),
                            !.n = store_call.n + 1]
    /\ UNCHANGED <<memory, phase_results, task_history, task_logs, now,
                   NonStoreVars>>

\* memory.store_phase_result(phase, result, task_id, thread_id)
StorePhaseResult ==
    /\ store_call.n < MaxStoreOps
    /\ \E result \in Results, thread_id \in Threads :
          /\ phase_results' = store_phase_result(World, "research", result,
                                  "A", thread_id).phase_results
          /\ store_call' = [NoRead EXCEPT !.op = "store_phase_result",
                               !.phase = "research", !.value = result,
                               !.task_id = "A", !.thread_id = thread_id,
                               !.n = store_call.n + 1]
    /\ UNCHANGED <<memory, task_history, task_logs, now, NonStoreVars>>

\* memory.retrieve_phase_result(phase, task_id, thread_id, default)
RetrievePhaseResult ==
    /\ store_call.n < MaxStoreOps
    /\ \E thread_id \in Threads :
          store_call' = [NoRead EXCEPT !.op = "retrieve_phase_result",
                            !.phase = "research", !.task_id = "A",
                            !.thread_id = thread_id, !.default = "default",
                            !.result = retrieve_phase_result(World, "research",
                                          "A", thread_id, "default"),
                            !.n = store_call.n + 1]
    /\ UNCHANGED <<memory, phase_results, task_history, task_logs, now,
                   NonStoreVars>>

NextStore ==
    \/ Store
    \/ Retrieve
    \/ StorePhaseResult
    \/ RetrievePhaseResult

SpecStore == Init /\ [][NextStore]_vars

\* memory.store_task(task_id, content, thread_id, status, metadata)
StoreTask ==
    /\ store_call.n < MaxTaskOps
    /\ \E task_id \in {"A"}, content \in {"do", ""},
          thread_id \in {ClientId, PeerId},
          status \in {"pending", "cancelled"},
          metadata \in {NoMeta, ErrorMeta} :
          /\ task_history' = store_task(World, task_id, content, thread_id,
                                        status, metadata).task_history
          /\ store_call' = [NoRead EXCEPT !.op = "store_task",
                               !.task_id = task_id, !.value = content,
                               !.thread_id = thread_id, !.status = status,
                               !.metadata = metadata,
                               !.n = store_call.n + 1,
                               !.prev = CallOf(store_call)]
    /\ UNCHANGED <<memory, phase_results, task_logs, now, NonStoreVars>>

\* memory.mark_task_complete(task_id, thread_id, metadata)
MarkTaskComplete ==
    /\ store_call.n < MaxTaskOps
    /\ \E task_id \in {"A"}, thread_id \in {ClientId, PeerId},
          metadata \in {NoMeta, ErrorMeta} :
          /\ task_history' = memory_mark_task_complete(World, task_id,
                                  thread_id, metadata).task_history
          /\ store_call' = [NoRead EXCEPT !.op = "mark_task_complete",
                               !.task_id = task_id, !.thread_id = thread_id,
                               !.metadata = metadata,
                               !.n = store_call.n + 1,
                               !.prev = CallOf(store_call)]
    /\ UNCHANGED <<memory, phase_results, task_logs, now, NonStoreVars>>

\* time.time() moves on between two calls.
Tick ==
    /\ now < MaxClock
    /\ now' = now + 1
    /\ UNCHANGED <<memory, phase_results, task_history, task_logs,
                   store_call, NonStoreVars>>

NextTasks ==
    \/ StoreTask
    \/ MarkTaskComplete
    \/ Tick

SpecTasks == Init /\ [][NextTasks]_vars

\* ------------------------------------------------------ the task logs alone
\* log_task_message and get_task_logs called directly.  Every message
\* logged is numbered, so that the entries of a listing can be told apart;
\* limit and offset are the integers a caller passes, a negative limit
\* included (process_message hands the client's limit to get_task_logs).
MaxLogOps == 4
Limits == {-1, 1, 2}
Offsets == {0, 1}
MessageTypes == {"info", "error"}

\* memory.log_task_message(task_id, message, message_type, thread_id)
LogTaskMessage ==
    /\ store_call.n < MaxLogOps
    /\ \E thread_id \in {ClientId, PeerId}, message_type \in MessageTypes :
          /\ task_logs' = log_task_message(World, "A",
                              Text("message", None, store_call.n + 1),
                              message_type, thread_id).task_logs
          /\ store_call' = [NoRead EXCEPT !.op = "log_task_message",
                               !.task_id = "A", !.thread_id = thread_id,
                               !.message_type = message_type,
                               !.n = store_call.n + 1]
    /\ UNCHANGED <<memory, phase_results, task_history, now, NonStoreVars>>

\* memory.get_task_logs(task_id, thread_id, limit, offset, message_type)
GetTaskLogs ==
    /\ store_call.n < MaxLogOps
    /\ \E thread_id \in {ClientId, PeerId}, limit \in Limits,
          offset \in Offsets, message_type \in {None, "error"} :
          store_call' = [NoRead EXCEPT !.op = "get_task_logs",
                            !.task_id = "A", !.thread_id = thread_id,
                            !.limit = limit, !.offset = offset,
                            !.message_type = message_type,
                            !.result = get_task_logs(World, "A", thread_id,
                                          limit, offset, message_type),
                            !.n = store_call.n + 1]
    /\ UNCHANGED <<memory, phase_results, task_history, task_logs, now,
                   NonStoreVars>>

NextLogs ==
    \/ LogTaskMessage
    \/ GetTaskLogs

SpecLogs == Init /\ [][NextLogs]_vars

\* ---------------------------------------------------- the task history alone
\* store_task, mark_task_complete and get_task_history called directly, on
\* two tasks of each of two threads.
MaxHistoryOps == 5

\* memory.store_task(task_id, content, thread_id, status)
HistoryStoreTask ==
    /\ store_call.n < MaxHistoryOps
    /\ \E task_id \in TaskIds, thread_id \in {ClientId, PeerId},
          status \in {"pending", "in_progress"} :
          /\ task_history' = store_task(World, task_id, "do", thread_id,
                                        status, NoMeta).task_history
          /\ store_call' = [NoRead EXCEPT !.op = "store_task",
                               !.task_id = task_id, !.value = "do",
                               !.thread_id = thread_id, !.status = status,
                               !.n = store_call.n + 1,
                               !.prev = CallOf(store_call)]
    /\ UNCHANGED <<memory, phase_results, task_logs, now, NonStoreVars>>

\* memory.mark_task_complete(task_id, thread_id)
HistoryMarkTaskComplete ==
    /\ store_call.n < MaxHistoryOps
    /\ \E task_id \in TaskIds, thread_id \in {ClientId, PeerId} :
          /\ task_history' = memory_mark_task_complete(World, task_id,
                                  thread_id, NoMeta).task_history
          /\ store_call' = [NoRead EXCEPT !.op = "mark_task_complete",
                               !.task_id = task_id, !.thread_id = thread_id,
                               !.n = store_call.n + 1,
                               !.prev = CallOf(store_call)]
    /\ UNCHANGED <<memory, phase_results, task_logs, now, NonStoreVars>>

\* memory.get_task_history(thread_id, limit, offset, status)
GetTaskHistory ==
    /\ store_call.n < MaxHistoryOps
    /\ \E thread_id \in {ClientId, PeerId}, limit \in Limits,
          offset \in Offsets, status \in {None, "completed"} :
          store_call' = [NoRead EXCEPT !.op = "get_task_history",
                            !.thread_id = thread_id,
                            !.limit = limit, !.offset = offset,
                            !.status = status,
                            !.result = get_task_history(World, thread_id,
                                          limit, offset, status),
                            !.n = store_call.n + 1,
                            !.prev = CallOf(store_call)]
    /\ UNCHANGED <<memory, phase_results, task_history, task_logs, now,
                   NonStoreVars>>

NextHistory ==
    \/ HistoryStoreTask
    \/ HistoryMarkTaskComplete
    \/ GetTaskHistory

SpecHistory == Init /\ [][NextHistory]_vars

\* ------------------------------------------------------------ the bulk clears
\* One write method of each table, clear_thread and clear_all called
\* directly.  A clear records in `result` how many rows it deleted.
MaxClearOps == 5

\* The number of rows in the four tables of a state.
RowCount(w) ==
    Len(w.memory) + Len(w.phase_results) + Len(w.task_history)
        + Len(w.task_logs)

\* store, store_phase_result, store_task or log_task_message by a thread.
ClearWrite ==
    /\ store_call.n < MaxClearOps
    /\ \E thread_id \in Threads,
          op \in {"store", "store_phase_result", "store_task",
                  "log_task_message"} :
          LET w == CASE op = "store" ->
                          store(World, "k1", "v1", thread_id)
                     [] op = "store_phase_result" ->
                          store_phase_result(World, "research", "v1", "A",
                                             thread_id)
                     [] op = "store_task" ->
                          store_task(World, "A", "do", thread_id, "pending",
                                     NoMeta)
                     [] op = "log_task_message" ->
                          log_task_message(World, "A",
                              Text("message", None, store_call.n + 1),
                              "info", thread_id)
          IN /\ memory' = w.memory
             /\ phase_results' = w.phase_results
             /\ task_history' = w.task_history
             /\ task_logs' = w.task_logs
             /\ store_call' = [NoRead EXCEPT !.op = op,
                                  !.thread_id = thread_id,
                                  !.n = store_call.n + 1]
    /\ UNCHANGED <<now, NonStoreVars>>

\* memory.clear_thread(thread_id)
ClearThread ==
    /\ store_call.n < MaxClearOps
    /\ \E thread_id \in Threads :
          LET w == clear_thread(World, thread_id)
          IN /\ memory' = w.memory
             /\ phase_results' = w.phase_results
             /\ task_history' = w.task_history
             /\ task_logs' = w.task_logs
             /\ store_call' = [NoRead EXCEPT !.op = "clear_thread",
                                  !.thread_id = thread_id,
                                  !.result = RowCount(World) - RowCount(w),
                                  !.n = store_call.n + 1]
    /\ UNCHANGED <<now, NonStoreVars>>

\* memory.clear_all()
ClearAll ==
    /\ store_call.n < MaxClearOps
    /\ LET w == clear_all(World)
       IN /\ memory' = w.memory
          /\ phase_results' = w.phase_results
          /\ task_history' = w.task_history
          /\ task_logs' = w.task_logs
          /\ store_call' = [NoRead EXCEPT !.op = "clear_all",
                               !.result = RowCount(World) - RowCount(w),
                               !.n = store_call.n + 1]
    /\ UNCHANGED <<now, NonStoreVars>>

NextClear ==
    \/ ClearWrite
    \/ ClearThread
    \/ ClearAll

SpecClear == Init /\ [][NextClear]_vars

\* --------------------------------------------- the queue methods on their own
SessionVars == <<model, research_only, current_phase, current_task_id,
                 completed_tasks, is_processing, active_connections,
                 connection_states, websocket,
                 task_history, task_logs, phase_results, now, sent, inbox,
                 pipelines, uuid_seq, nmsgs, started, raised, handled, nsteps,
                 trace, peer, memory, store_call, connections, manager,
                 lock, workers>>

\* state.add_task(task) with a task dict not added before.
AddTask ==
    /\ last_call.n < MaxOps
    /\ \E id \in TaskIds :
        LET task == [task_id |-> id, content |-> "do",
                     created_at |-> Len(added) + 1]
        IN /\ task_queue' = add_task(World, task).task_queue
           /\ added' = Append(added, task)
           /\ last_call' = [NoCall EXCEPT !.op = "add_task",
                               !.before = task_queue, !.n = last_call.n + 1]
    /\ UNCHANGED <<popped, SessionVars>>

\* state.pop_next_task()
PopNextTask ==
    /\ last_call.n < MaxOps
    /\ task_queue' = pop_next_task(World).w.task_queue
    /\ popped' = Append(popped, pop_next_task(World).task)
    /\ last_call' = [NoCall EXCEPT !.op = "pop_next_task",
                        !.before = task_queue,
                        !.task = pop_next_task(World).task,
                        !.n = last_call.n + 1]
    /\ UNCHANGED <<added, SessionVars>>

\* state.get_next_task()
GetNextTask ==
    /\ last_call.n < MaxOps
    /\ last_call' = [NoCall EXCEPT !.op = "get_next_task",
                        !.before = task_queue,
                        !.task = get_next_task(World),
                        !.n = last_call.n + 1]
    /\ UNCHANGED <<task_queue, added, popped, SessionVars>>

\* state.has_pending_tasks()
HasPendingTasks ==
    /\ last_call.n < MaxOps
    /\ last_call' = [NoCall EXCEPT !.op = "has_pending_tasks",
                        !.before = task_queue,
                        !.flag = has_pending_tasks(World),
                        !.n = last_call.n + 1]
    /\ UNCHANGED <<task_queue, added, popped, SessionVars>>

NextQueue ==
    \/ AddTask
    \/ PopNextTask
    \/ GetNextTask
    \/ HasPendingTasks

SpecQueue == Init /\ [][NextQueue]_vars

\* ----------------------------------- the ConnectionState methods on their own
\* add_task, the start of a task as process_next_task does it,
\* mark_task_complete and cancel_task called on one ConnectionState; a task
\* id may be submitted again while a task of that id is active or queued.
MaxStateOps == 6

\* Everything but the ConnectionState fields these methods touch and the
\* record of the calls.
StateFrame ==
    <<model, research_only, current_phase, active_connections,
      connection_states, websocket, task_history, task_logs, phase_results,
      now, sent, inbox, pipelines, uuid_seq, nmsgs, started, raised, handled,
      nsteps, trace, peer, memory, store_call, popped, connections,
      manager, lock, workers>>

\* state.add_task(task)
StateAddTask ==
    /\ last_call.n < MaxStateOps
    /\ \E id \in TaskIds :
        LET task == [task_id |-> id, content |-> "do",
                     created_at |-> Len(added) + 1]
        IN /\ task_queue' = add_task(World, task).task_queue
           /\ added' = Append(added, task)
           /\ last_call' = [NoCall EXCEPT !.op = "add_task",
                               !.before = task_queue, !.task = task,
                               !.n = last_call.n + 1]
    /\ UNCHANGED <<current_task_id, is_processing, completed_tasks,
                   StateFrame>>

\* process_next_task up to is_processing = True: the head of the queue
\* becomes the active task.
StateStartTask ==
    /\ last_call.n < MaxStateOps
    /\ ~is_processing
    /\ pop_next_task(World).task # NoTask
    /\ task_queue' = pop_next_task(World).w.task_queue
    /\ current_task_id' = pop_next_task(World).task.task_id
    /\ is_processing' = TRUE
    /\ last_call' = [NoCall EXCEPT !.op = "process_next_task",
                        !.before = task_queue,
                        !.task = pop_next_task(World).task,
                        !.n = last_call.n + 1]
    /\ UNCHANGED <<completed_tasks, added, StateFrame>>

\* state.mark_task_complete(task_id)
StateMarkTaskComplete ==
    /\ last_call.n < MaxStateOps
    /\ \E id \in TaskIds :
        LET w == mark_task_complete(World, id)
        IN /\ current_task_id' = w.current_task_id
           /\ is_processing' = w.is_processing
           /\ completed_tasks' = w.completed_tasks
           /\ task_queue' = w.task_queue
           /\ last_call' = [NoCall EXCEPT !.op = "mark_task_complete",
                               !.before = task_queue,
                               !.task = [NoTask EXCEPT !.task_id = id],
                               !.n = last_call.n + 1]
    /\ UNCHANGED <<added, StateFrame>>

\* state.cancel_task(task_id)
StateCancelTask ==
    /\ last_call.n < MaxStateOps
    /\ \E id \in TaskIds :
        LET r == cancel_task(World, id)
        IN /\ current_task_id' = r.w.current_task_id
           /\ is_processing' = r.w.is_processing
           /\ completed_tasks' = r.w.completed_tasks
           /\ task_queue' = r.w.task_queue
           /\ last_call' = [NoCall EXCEPT !.op = "cancel_task",
                               !.before = task_queue,
                               !.task = [NoTask EXCEPT !.task_id = id],
                               !.flag = r.found,
                               !.n = last_call.n + 1]
    /\ UNCHANGED <<added, StateFrame>>

NextState ==
    \/ StateAddTask
    \/ StateStartTask
    \/ StateMarkTaskComplete
    \/ StateCancelTask

SpecState == Init /\ [][NextState]_vars

\* ------------------------------------------------ process_next_task called
\* process_next_task is a public coroutine of the server: besides the calls
\* the handlers make, it is called here directly on the ConnectionState, at
\* any point of a run of task, mark_complete and cancel messages.  last_call
\* records the queue and is_processing the call found.
MaxNextCalls == 2

ProcessNextTask ==
    /\ last_call.n < MaxNextCalls
    /\ Commit(process_next_task(World))
    /\ last_call' = [NoCall EXCEPT !.op = "process_next_task",
                        !.before = task_queue, !.flag = is_processing,
                        !.n = last_call.n + 1]
    /\ UNCHANGED <<added, popped>>

NextDirect ==
    \/ TaskMsg
    \/ MarkCompleteMsg
    \/ CancelMsg
    \/ AgentReturns
    \/ AgentRaises
    \/ ProcessNextTask

SpecDirect == Init /\ [][NextDirect]_vars

\* ------------------------------------------------- the connection registry
\* Clients connect to /ws/{client_id} and disconnect; the client_id is the
\* client's choice, so two websockets may be accepted under one client_id.
\* The handlers and pipelines of a connection send through
\* send_update(client_id, data), which looks the websocket up by client_id.
MaxConnections == 3
MaxUpdates == 2

RegistryFrame ==
    <<model, research_only, current_phase, current_task_id, task_queue,
      completed_tasks, is_processing, active_connections, connection_states,
      websocket, task_history, task_logs, phase_results, now, sent, inbox,
      pipelines, uuid_seq, started, raised, added, popped, last_call,
      handled, nsteps, trace, peer, memory, store_call, lock, workers>>

\* websocket_endpoint up to its receive loop: accept, ConnectionState,
\* add_connection, connection_established sent on the new websocket.
Connect ==
    /\ Len(connections) < MaxConnections
    /\ \E c \in {ClientId, PeerId} :
          /\ connections' = Append(connections,
                                Accepted(c, Len(connections) + 1))
          /\ manager' = add_connection(manager, c, Len(connections) + 1)
    /\ UNCHANGED <<RegistryFrame, nmsgs>>

\* The client closes the transport of a connection; from then on send_json
\* on it raises.
TransportCloses ==
    /\ \E h \in DOMAIN connections :
          /\ connections[h].open
          /\ connections' = [connections EXCEPT ![h].open = FALSE]
    /\ UNCHANGED <<RegistryFrame, nmsgs, manager>>

\* receive_json of a closed connection raises WebSocketDisconnect: its
\* endpoint leaves the loop and calls remove_connection(client_id).
EndpointDisconnects ==
    /\ \E h \in DOMAIN connections :
          /\ ~connections[h].open
          /\ connections[h].receiving
          /\ connections' = [connections EXCEPT ![h].receiving = FALSE]
          /\ manager' = pop_connection(manager, connections[h].client_id)
    /\ UNCHANGED <<RegistryFrame, nmsgs>>

\* A handler or pipeline of connection h calls send_update(client_id, data)
\* with the client_id of h: the frame goes to the websocket registered under
\* that client_id; when send_json raises, the entry is removed; without an
\* entry nothing is sent.
SendUpdate ==
    /\ nmsgs < MaxUpdates
    /\ nmsgs' = nmsgs + 1
    /\ \E h \in DOMAIN connections :
          /\ connections[h].receiving
          /\ LET client_id == connections[h].client_id
                 to == manager.active_connections[client_id]
             IN IF to = 0
                THEN UNCHANGED <<connections, manager>>
                ELSE IF connections[to].open
                THEN /\ connections' =
                          [connections EXCEPT ![to].frames =
                              Append(@, [type |-> "update", origin |-> h])]
                     /\ UNCHANGED manager
                ELSE /\ connections' =
                          [connections EXCEPT ![to].errors = @ + 1]
                     /\ manager' = pop_connection(manager, client_id)
    /\ UNCHANGED RegistryFrame

NextRegistry ==
    \/ Connect
    \/ TransportCloses
    \/ EndpointDisconnects
    \/ SendUpdate

SpecRegistry == Init /\ [][NextRegistry]_vars

\* ------------------------------------------- the store called from threads
\* Two threads of the server process call store_task, mark_task_complete
\* and clear_thread of the one MemorySaver for the thread_id ClientId.  A
\* call waits at `with self._lock`, then runs its statements one by one:
\* store_task its SELECT and then its INSERT or UPDATE, the other two their
\* single statement.  The rows are committed and the lock released when the
\* with-blocks are left.
MaxWorkerCalls == 4

WorkerFrame ==
    <<model, research_only, current_phase, current_task_id, task_queue,
      completed_tasks, is_processing, active_connections, connection_states,
      websocket, now, sent, inbox, pipelines, uuid_seq, nmsgs, started,
      raised, added, popped, last_call, handled, nsteps, trace, peer,
      connections, manager>>

\* Mutant of acquire: the method body is entered without the lock.
acquire_unlocked(lk, t) == TRUE

\* threading.RLock.acquire by thread t, which does not hold it: possible
\* when no thread holds the lock.
acquire(lk, t) == lk = None

\* The INSERT of store_task.
insert_task(hist, task_id, content, thread_id, status, metadata, time) ==
    Append(hist,
        [thread_id |-> thread_id, task_id |-> task_id, content |-> content,
         status |-> status, created_at |-> time, completed_at |-> NULL,
         metadata |-> metadata])

\* The UPDATE of store_task.
update_task(hist, task_id, thread_id, status, metadata) ==
    [i \in 1..Len(hist) |->
        IF hist[i].thread_id = thread_id /\ hist[i].task_id = task_id
        THEN [hist[i] EXCEPT !.status = status, !.metadata = metadata]
        ELSE hist[i]]

\* A thread calls a method of the MemorySaver and reaches its lock.
WorkerCalls ==
    /\ store_call.n < MaxWorkerCalls
    /\ \E t \in Workers, op \in {"store_task", "mark_task_complete",
                                 "clear_thread"},
          task_id \in TaskIds, status \in {"pending", "error"} :
          /\ workers[t].pc = "idle"
          /\ workers' = [workers EXCEPT ![t] =
                            [pc |-> "acquire", op |-> op,
                             task_id |-> task_id, status |-> status,
                             found |-> FALSE]]
          /\ store_call' = [NoRead EXCEPT !.op = op, !.task_id = task_id,
                               !.thread_id = ClientId, !.status = status,
                               !.n = store_call.n + 1]
    /\ UNCHANGED <<WorkerFrame, lock, task_history, task_logs,
                   phase_results, memory>>

\* with self._lock
WorkerAcquires ==
    /\ \E t \in Workers :
          /\ workers[t].pc = "acquire"
          /\ acquire(lock, t)
          /\ lock' = t
          /\ workers' = [workers EXCEPT ![t].pc =
                            IF workers[t].op = "store_task"
                            THEN "select" ELSE "write"]
    /\ UNCHANGED <<WorkerFrame, store_call, task_history, task_logs,
                   phase_results, memory>>

\* store_task: SELECT id FROM task_history WHERE thread_id = ? AND
\* task_id = ?, fetchone.
WorkerSelects ==
    /\ \E t \in Workers :
          /\ workers[t].pc = "select"
          /\ workers' = [workers EXCEPT
                ![t].pc = "write",
                ![t].found = TaskRows(task_history, ClientId,
                                      workers[t].task_id) # {}]
    /\ UNCHANGED <<WorkerFrame, lock, store_call, task_history, task_logs,
                   phase_results, memory>>

\* The writing statement of the method, the commit, and the release of the
\* lock.
WorkerWrites ==
    /\ \E t \in Workers :
          /\ workers[t].pc = "write"
          /\ LET c == workers[t] IN
             CASE c.op = "store_task" ->
                    /\ task_history' =
                          IF c.found
                          THEN update_task(task_history, c.task_id, ClientId,
                                           c.status, NoMeta)
                          ELSE insert_task(task_history, c.task_id, "do",
                                           ClientId, c.status, NoMeta, now)
                    /\ UNCHANGED <<task_logs, phase_results, memory>>
               [] c.op = "mark_task_complete" ->
                    /\ task_history' =
                          memory_mark_task_complete(World, c.task_id,
                              ClientId, NoMeta).task_history
                    /\ UNCHANGED <<task_logs, phase_results, memory>>
               [] c.op = "clear_thread" ->
                    /\ task_history' =
                          clear_thread(World, ClientId).task_history
                    /\ task_logs' = clear_thread(World, ClientId).task_logs
                    /\ phase_results' =
                          clear_thread(World, ClientId).phase_results
                    /\ memory' = clear_thread(World, ClientId).memory
          /\ workers' = [workers EXCEPT ![t] = NoStoreCall]
          /\ lock' = None
    /\ UNCHANGED <<WorkerFrame, store_call>>

NextWorkers ==
    \/ WorkerCalls
    \/ WorkerAcquires
    \/ WorkerSelects
    \/ WorkerWrites

SpecWorkers == Init /\ [][NextWorkers]_vars

\* =================================================================== claims
Terminal == {"completed", "cancelled", "error"}
PipelineEvents ==
    {"phase_started", "research_complete", "planning_complete",
     "implementation_complete", "task_complete"}

Status(hist, task_id) == get_task(hist, task_id, ClientId).status
LastN(seq, n) == SubSeq(seq, Len(seq) - n + 1, Len(seq))
QueuedIds == {task_queue[i].task_id : i \in 1..Len(task_queue)}
PhaseStarted(t, phase) == [Event("phase_started", t) EXCEPT !.phase = phase]

\* The events of a full run of task t, and of a research-only run.
FullRun(t) ==
    <<Event("task_received", t),
      PhaseStarted(t, "research"), Event("research_complete", t),
      PhaseStarted(t, "planning"), Event("planning_complete", t),
      PhaseStarted(t, "implementation"), Event("implementation_complete", t),
      Event("task_complete", t)>>
ResearchOnlyRun(t) ==
    <<Event("task_received", t),
      PhaseStarted(t, "research"), Event("research_complete", t),
      Event("task_complete", t)>>
PhaseIndex(phase) ==
    CASE phase = "research" -> 1 [] phase = "planning" -> 2
      [] phase = "implementation" -> 3

\* C1: whenever is_processing is true, current_task_id is set and no entry
\* of task_queue carries that task_id.
C1_AtMostOneActive ==
    is_processing =>
        /\ current_task_id # None
        /\ current_task_id \notin QueuedIds

\* C2: a task of the client has persisted status in_progress if and only if
\* it is the session's current task while is_processing is true.
C2_StoreSessionAgreement ==
    \A i \in 1..Len(task_history) :
        task_history[i].thread_id = ClientId =>
            (task_history[i].status = "in_progress"
                <=> (is_processing
                     /\ current_task_id = task_history[i].task_id))

\* A pipeline still suspended in its collaborator although its task was
\* cancelled as the active task.
CancelledInFlight(f) ==
    /\ f \in pipelines
    /\ Status(task_history, f.task.task_id) = "cancelled"
    /\ current_task_id # f.task.task_id
    /\ f.task.task_id \notin QueuedIds
    /\ \A g \in pipelines : g.task.task_id = f.task.task_id => g = f

\* C3: when the collaborator call of a task cancelled while active returns
\* or raises, the pipeline sends no phase_started, <phase>_complete or
\* task_complete for that task, does not go on to a further phase, and the
\* task's persisted status stays cancelled.
C3_CancelledResultsDiscarded ==
    [][\A f \in pipelines :
          (CancelledInFlight(f) /\ f \notin pipelines') =>
              /\ \A i \in (Len(sent) + 1)..Len(sent') :
                    ~(sent'[i].task_id = f.task.task_id
                      /\ sent'[i].type \in PipelineEvents)
              /\ \A g \in pipelines' : g.task # f.task
              /\ Status(task_history', f.task.task_id) = "cancelled"]_vars

\* C4: once a task's persisted status is completed, cancelled or error, no
\* step changes it.
C4_TerminalStatusFinal ==
    [][\A i \in 1..Len(task_history) :
          task_history[i].status \in Terminal =>
              /\ i <= Len(task_history')
              /\ task_history'[i].status = task_history[i].status]_vars

\* C5: the tasks popped so far followed by the queue are the tasks added, in
\* order; pop_next_task returns the head and removes it, or None on an empty
\* queue; get_next_task returns what the next pop would return and removes
\* nothing; has_pending_tasks is true exactly when the queue is non-empty.
C5_QueueFifo ==
    /\ SelectSeq(popped, LAMBDA t : t # NoTask) \o task_queue = added
    /\ last_call.op = "pop_next_task" =>
          IF last_call.before = <<>>
          THEN last_call.task = NoTask /\ task_queue = <<>>
          ELSE /\ last_call.task = Head(last_call.before)
               /\ task_queue = Tail(last_call.before)
    /\ last_call.op = "get_next_task" =>
          /\ last_call.task = pop_next_task(World).task
          /\ task_queue = last_call.before
    /\ last_call.op = "has_pending_tasks" =>
          /\ last_call.flag <=> (last_call.before # <<>>)
          /\ task_queue = last_call.before

\* C5 witness: two or more tasks added, all popped in that order, then None.
C5_Witness ==
    /\ Len(added) >= 2
    /\ popped = added \o <<NoTask>>

\* C6: tasks start in the order in which they were accepted (created_at is
\* the acceptance order), and every task still queued was accepted after
\* every task already started.
C6_FifoStartOrder ==
    /\ \A i, j \in 1..Len(started) : i < j => started[i] < started[j]
    /\ \A k \in 1..Len(task_queue) : \A i \in 1..Len(started) :
          started[i] < task_queue[k].created_at

\* C6 witness: three tasks accepted, the second and third while the first was
\* active, and all three started.
C6_Witness ==
    /\ Len(started) = 3
    /\ Cardinality({i \in 1..Len(sent) : sent[i].type = "task_queued"}) = 2

\* C7: under the websocket endpoint, on a connection that is not
\* research-only, a pipeline suspended in phase p has sent, as its latest
\* events, the prefix of the full run up to phase_started{p}; and when
\* task_complete is the latest event the last eight events are the full run
\* of that task, its row is completed with completed_at set, and the
\* session is idle.
C7_EndToEndSuccess ==
    ~research_only =>
        /\ \A f \in pipelines :
              /\ Len(sent) >= 2 * PhaseIndex(f.phase)
              /\ LastN(sent, 2 * PhaseIndex(f.phase))
                    = SubSeq(FullRun(f.task.task_id), 1,
                             2 * PhaseIndex(f.phase))
        /\ (pipelines = {} /\ sent[Len(sent)].type = "task_complete") =>
              LET t == sent[Len(sent)].task_id IN
              /\ Len(sent) >= 8
              /\ LastN(sent, 8) = FullRun(t)
              /\ get_task(task_history, t, ClientId).status = "completed"
              /\ get_task(task_history, t, ClientId).completed_at # NULL
              /\ ~is_processing
              /\ current_task_id = None
              /\ task_queue = <<>>

\* C7 witness: a task sent without task_id has run all three phases.
C7_Witness ==
    /\ ~research_only
    /\ pipelines = {}
    /\ sent[Len(sent)] = Event("task_complete", GenIds[1])
    /\ Status(task_history, GenIds[1]) = "completed"

\* C8: under the websocket endpoint, on a research-only connection, no
\* pipeline is ever suspended in the planning or implementation collaborator;
\* and when task_complete is the latest event the last four events are
\* task_received, phase_started{research}, research_complete, task_complete
\* of that task, the last four log entries are its create, research
\* phase_change, research phase_complete and complete entries, and its row is
\* completed.
C8_ResearchOnly ==
    research_only =>
        /\ \A f \in pipelines : f.phase = "research"
        /\ (pipelines = {} /\ sent[Len(sent)].type = "task_complete") =>
              LET t == sent[Len(sent)].task_id IN
              /\ Len(sent) >= 4
              /\ LastN(sent, 4) = ResearchOnlyRun(t)
              /\ Len(task_logs) >= 4
              /\ [i \in 1..4 |->
                    <<LastN(task_logs, 4)[i].task_id,
                      LastN(task_logs, 4)[i].message_type,
                      LastN(task_logs, 4)[i].message.phase>>]
                   = <<<<t, "create", None>>,
                       <<t, "phase_change", "research">>,
                       <<t, "phase_complete", "research">>,
                       <<t, "complete", None>>>>
              /\ get_task(task_history, t, ClientId).status = "completed"
              /\ ~is_processing

\* C8 witness: a task has completed on a research-only connection.
C8_Witness ==
    /\ research_only
    /\ pipelines = {}
    /\ sent[Len(sent)].type = "task_complete"
    /\ Status(task_history, sent[Len(sent)].task_id) = "completed"

\* C9: a task message that arrived while a task was being processed is
\* answered with task_queued{position: 1}.
C9_QueuedWhileBusy ==
    [][(/\ inbox # <<>>
        /\ inbox' = Tail(inbox)
        /\ Head(inbox).busy
        /\ Head(inbox).msg.type = "task"
        /\ Head(inbox).msg.content # "") =>
            \E i \in (Len(sent) + 1)..Len(sent') :
                /\ sent'[i].type = "task_queued"
                /\ sent'[i].position = 1]_vars

\* C10: when the collaborator of a task raises in phase p, an error event
\* with the task_id is sent, an error log is appended, the task's row has
\* status error with metadata phase p, no pipeline of the task goes on, the
\* connection stays registered, and a queued task, if any, is started.
C10_PhaseFailureIsolated ==
    raised # NoFrame =>
        LET t == raised.task.task_id IN
        /\ \E i \in 1..Len(sent) :
              i >= Len(sent) - 1 /\ sent[i] = Event("error", t)
        /\ \E i \in 1..Len(task_logs) :
              /\ i >= Len(task_logs) - 1
              /\ task_logs[i].task_id = t
              /\ task_logs[i].message_type = "error"
        /\ get_task(task_history, t, ClientId).status = "error"
        /\ get_task(task_history, t, ClientId).metadata.phase = raised.phase
        /\ \A g \in pipelines : g.task # raised.task
        /\ ClientId \in active_connections
        /\ (task_queue = <<>> \/ is_processing)

\* The session is idle, nothing is queued or suspended, and every task of
\* the client has a final status.
Drained ==
    /\ ~is_processing
    /\ task_queue = <<>>
    /\ pipelines = {}
    /\ \A i \in 1..Len(task_history) :
          task_history[i].thread_id = ClientId =>
              task_history[i].status \in Terminal

\* C11: with finitely many messages and every collaborator call returning
\* or raising, the session ends up idle for good with an empty queue, no
\* pipeline suspended and every accepted task completed, cancelled or error.
C11_QueueDrains == <>[]Drained

\* C11 witness: two tasks were queued behind a first one, all three were
\* started, and the session has drained.
C11_Witness ==
    /\ Len(started) = 3
    /\ Cardinality({i \in 1..Len(sent) : sent[i].type = "task_queued"}) = 2
    /\ Drained

\* The ids of the active task and of the queued tasks are pairwise distinct.
DistinctIds ==
    /\ current_task_id \notin QueuedIds
    /\ \A i, j \in 1..Len(task_queue) :
          task_queue[i].task_id = task_queue[j].task_id => i = j

\* C12: with a task active and distinct tasks queued, cancel{b} of a queued b
\* removes exactly b's entry and keeps the order of the rest, leaves the
\* active task and is_processing as they are, starts nothing, persists b as
\* cancelled and sends task_cancelled{b}; cancel{a} of the active a persists
\* a as cancelled, sends task_cancelled{a} and then activates the head of
\* the queue, or leaves the session idle when the queue is empty.
C12_CancelById ==
    [][(/\ handled'.type = "cancel"
        /\ handled'.task_id # None
        /\ is_processing
        /\ DistinctIds) =>
          LET b == handled'.task_id
              i == QueueIndex(task_queue, b)
          IN /\ (i # 0) =>
                  /\ task_queue' = Remove(task_queue, i)
                  /\ current_task_id' = current_task_id
                  /\ is_processing'
                  /\ pipelines' = pipelines
                  /\ Status(task_history', b) = "cancelled"
                  /\ sent' = Append(sent, Event("task_cancelled", b))
             /\ (b = current_task_id) =>
                  /\ Status(task_history', b) = "cancelled"
                  /\ Len(sent') > Len(sent)
                  /\ sent'[Len(sent) + 1] = Event("task_cancelled", b)
                  /\ IF task_queue = <<>>
                     THEN /\ current_task_id' = None
                          /\ ~is_processing'
                          /\ pipelines' = pipelines
                     ELSE /\ current_task_id' = Head(task_queue).task_id
                          /\ is_processing'
                          /\ task_queue' = Tail(task_queue)
                          /\ pipelines' = pipelines \cup
                                {[task |-> Head(task_queue),
                                  phase |-> "research"]}
                          /\ Status(task_history', Head(task_queue).task_id)
                                = "in_progress"]_vars

\* C12 witness: with one task active and two queued, the first queued task
\* was cancelled: the active task is still active and one task is queued.
C12_Witness ==
    /\ nmsgs = 4
    /\ handled.type = "cancel"
    /\ handled.task_id # None
    /\ sent[Len(sent)] = Event("task_cancelled", handled.task_id)
    /\ is_processing
    /\ current_task_id # handled.task_id
    /\ Len(task_queue) = 1
    /\ Cardinality({i \in 1..Len(sent) : sent[i].type = "task_queued"}) = 2

\* C13: the handler of cancel without task_id leaves the session idle with
\* an empty queue, leaves the task that was active persisted as cancelled,
\* persists cancelled and appends a cancel log for every task that was
\* queued, sends all_tasks_cancelled and nothing else, and starts no task.
C13_CancelAll ==
    [][(handled'.type = "cancel" /\ handled'.task_id = None) =>
          /\ current_task_id' = None
          /\ ~is_processing'
          /\ task_queue' = <<>>
          /\ is_processing =>
                Status(task_history', current_task_id) = "cancelled"
          /\ \A k \in 1..Len(task_queue) :
                /\ Status(task_history', task_queue[k].task_id) = "cancelled"
                /\ \E i \in (Len(task_logs) + 1)..Len(task_logs') :
                      /\ task_logs'[i].task_id = task_queue[k].task_id
                      /\ task_logs'[i].message_type = "cancel"
          /\ sent' = Append(sent, Event("all_tasks_cancelled", None))
          /\ pipelines' = pipelines
          /\ started' = started]_vars

\* C14: under the websocket endpoint a handler starts only when no pipeline
\* of the connection is suspended and the session is not processing, so the
\* handler of the previous message and every pipeline it awaited have
\* returned; and the message handled is the oldest one waiting.
C14_OneAtATime ==
    [][handled' # NoMessage =>
          /\ pipelines = {}
          /\ ~is_processing
          /\ inbox # <<>>
          /\ handled' = Head(inbox).msg
          /\ inbox' = Tail(inbox)]_vars

\* C14 witness: a second task message has just been handled, after the
\* pipeline of the first one ended, with a third message waiting.
C14_Witness ==
    /\ handled.type = "task"
    /\ Len(started) = 2
    /\ pipelines # {}
    /\ inbox # <<>>

\* A message that lacks a required field.
ValidationError(m) ==
    \/ m.type = "task" /\ m.content \in {"", None}
    \/ m.type \in {"mark_complete", "get_task_logs"} /\ m.task_id = None

\* The ConnectionState fields of the claims on errors, the four tables of
\* the store and the suspended pipelines.
SessionAndStore ==
    <<task_queue, current_task_id, is_processing, completed_tasks,
      current_phase, memory, phase_results, task_history, task_logs,
      pipelines>>

\* C16: the handler of a task message with empty or missing content, or of a
\* mark_complete or get_task_logs message without task_id, sends exactly one
\* error event and changes neither the session nor any table of the store.
C16_ValidationErrors ==
    [][ValidationError(handled') =>
          /\ sent' = Append(sent, Event("error", None))
          /\ UNCHANGED SessionAndStore]_vars

\* C16 witness: a mark_complete without task_id was answered with an error
\* while a task was active and another one queued.
C16_Witness ==
    /\ handled = Message("mark_complete", None, None)
    /\ sent[Len(sent)] = Event("error", None)
    /\ is_processing
    /\ task_queue # <<>>

\* The task_id is not the active task, not queued and not in the store.
UnknownTask(task_id) ==
    /\ task_id # current_task_id
    /\ task_id \notin QueuedIds
    /\ get_task(task_history, task_id, ClientId) = NoRow

\* C17: the handler of cancel, mark_complete or get_task_status naming a
\* task that is neither active, queued nor stored sends one error event, no
\* success event, and changes neither the session nor any table of the
\* store, task_logs included.
C17_NotFoundErrors ==
    [][(/\ handled'.type \in {"cancel", "mark_complete", "get_task_status"}
        /\ handled'.task_id # None
        /\ UnknownTask(handled'.task_id)) =>
          /\ sent' = Append(sent, Event("error", None))
          /\ UNCHANGED SessionAndStore]_vars

\* Rows of thread t in the four tables of the store.
RowsOf(t) ==
    <<SelectSeq(task_history, LAMBDA r : r.thread_id = t),
      SelectSeq(task_logs, LAMBDA r : r.thread_id = t),
      SelectSeq(phase_results, LAMBDA r : r.thread_id = t),
      SelectSeq(memory, LAMBDA r : r.thread_id = t)>>

\* Every message of PeerId has been handled and every task it had accepted
\* has ended with task_complete or error.
PeerServed ==
    /\ peer.inbox = <<>>
    /\ peer.pipelines = {}
    /\ ~peer.is_processing
    /\ \A i \in 1..Len(peer.sent) :
          peer.sent[i].type = "task_received" =>
              \E j \in (i + 1)..Len(peer.sent) :
                  /\ peer.sent[j].type \in {"task_complete", "error"}
                  /\ peer.sent[j].task_id = peer.sent[i].task_id

\* A step that changes one session leaves the other session, the rows of
\* the other thread and the rows of "global" as they were.
SessionFrame ==
    /\ ClientSession' # ClientSession =>
          /\ peer' = peer
          /\ RowsOf(PeerId)' = RowsOf(PeerId)
          /\ RowsOf("global")' = RowsOf("global")
    /\ peer' # peer =>
          /\ ClientSession' = ClientSession
          /\ RowsOf(ClientId)' = RowsOf(ClientId)
          /\ RowsOf("global")' = RowsOf("global")

\* C15: a step of one session changes neither the ConnectionState and
\* transport of the other session nor a store row of another thread; and
\* whatever the collaborator of ClientId does, also if it never returns,
\* PeerId has its messages handled and its tasks run to their end.
C15_SessionsIndependent ==
    /\ [][SessionFrame]_vars
    /\ <>[]PeerServed

\* C15 witness: PeerId has run a task "A" to task_complete while the
\* pipeline of ClientId, started earlier for its own task "A", is still
\* suspended in its first collaborator call.
C15_Witness ==
    /\ current_task_id = "A"
    /\ pipelines = {[task |-> [task_id |-> "A", content |-> "do",
                                created_at |-> 1], phase |-> "research"]}
    /\ Len(peer.sent) > 0
    /\ peer.sent[Len(peer.sent)] = Event("task_complete", "A")
    /\ Status(task_history, "A") = "in_progress"

\* The values read back from the rows of a table under thread t: those of
\* memory with key k, those of phase_results with task_id k and the phase.
MemoryValues(t, k) ==
    {json_loads(memory[i].value) :
        i \in {j \in 1..Len(memory) :
                  memory[j].thread_id = t /\ memory[j].key = k}}
PhaseValues(t, k, phase) ==
    {json_loads(phase_results[i].result) :
        i \in {j \in 1..Len(phase_results) :
                  /\ phase_results[j].thread_id = t
                  /\ phase_results[j].task_id = k
                  /\ phase_results[j].phase = phase}}

\* What a read of thread t may return, given the values under t and under
\* "global": the thread's own value; else, for a thread other than
\* "global", the global value; else the default.
ReadOf(t, own, glob, default) ==
    IF own # {} THEN own
    ELSE IF t # "global" /\ glob # {} THEN glob
    ELSE {default}

\* C18: retrieve and retrieve_phase_result return the caller thread's value
\* when it has a row, otherwise for a thread other than "global" the value
\* of "global", otherwise the default; a row of any other thread is never
\* returned.
C18_GlobalFallback ==
    /\ store_call.op = "retrieve" =>
          store_call.result \in
              ReadOf(store_call.thread_id,
                     MemoryValues(store_call.thread_id, store_call.key),
                     MemoryValues("global", store_call.key),
                     store_call.default)
    /\ store_call.op = "retrieve_phase_result" =>
          store_call.result \in
              ReadOf(store_call.thread_id,
                     PhaseValues(store_call.thread_id, store_call.task_id,
                                 store_call.phase),
                     PhaseValues("global", store_call.task_id,
                                 store_call.phase),
                     store_call.default)

\* C18 witness: ClientId, without a row of its own, read the value of
\* "global" although PeerId holds another value under the same key.
C18_Witness ==
    /\ store_call.op = "retrieve"
    /\ store_call.thread_id = ClientId
    /\ MemoryValues(ClientId, store_call.key) = {}
    /\ MemoryValues("global", store_call.key) = {"list"}
    /\ MemoryValues(PeerId, store_call.key) = {"v1"}
    /\ store_call.result = "list"

\* The rows of a table other than those of one primary key.
OtherMemory(mem, t, k) ==
    {mem[i] : i \in {j \in 1..Len(mem) :
                        ~(mem[j].thread_id = t /\ mem[j].key = k)}}
OtherPhase(res, t, k, phase) ==
    {res[i] : i \in {j \in 1..Len(res) :
                        ~(/\ res[j].thread_id = t
                          /\ res[j].task_id = k
                          /\ res[j].phase = phase)}}

\* C19: store and store_phase_result leave exactly one row under the key
\* they were given, in the thread they were given, holding the new value;
\* every row of another key or thread, "global" included, and the other
\* tables are as before.
C19_WritesNeverFallBack ==
    [][/\ store_call'.op = "store" =>
            LET t == store_call'.thread_id
                k == store_call'.key
            IN /\ Cardinality(MemoryRows(memory', t, k)) = 1
               /\ \A i \in MemoryRows(memory', t, k) :
                     memory'[i].value = json_dumps(store_call'.value)
               /\ OtherMemory(memory', t, k) = OtherMemory(memory, t, k)
               /\ Len(memory') = Cardinality(OtherMemory(memory, t, k)) + 1
               /\ UNCHANGED <<phase_results, task_history, task_logs>>
       /\ store_call'.op = "store_phase_result" =>
            LET t == store_call'.thread_id
                k == store_call'.task_id
                ph == store_call'.phase
            IN /\ Cardinality(PhaseRows(phase_results', t, k, ph)) = 1
               /\ \A i \in PhaseRows(phase_results', t, k, ph) :
                     phase_results'[i].result = json_dumps(store_call'.value)
               /\ OtherPhase(phase_results', t, k, ph)
                     = OtherPhase(phase_results, t, k, ph)
               /\ Len(phase_results')
                     = Cardinality(OtherPhase(phase_results, t, k, ph)) + 1
               /\ UNCHANGED <<memory, task_history, task_logs>>]_vars

\* C19 witness: ClientId has overwritten its own row while "global" holds a
\* row under the same key.
C19_Witness ==
    /\ store_call.op = "store"
    /\ store_call.n = 3
    /\ store_call.thread_id = ClientId
    /\ Len(memory) = 2
    /\ MemoryValues("global", store_call.key) = {"v1"}
    /\ MemoryValues(ClientId, store_call.key) = {"list"}

\* C20: store_task on a (thread_id, task_id) without a row appends one row
\* with the given content, status and metadata and created_at now; on an
\* existing row it writes status and metadata only: content, created_at
\* and completed_at stay, whatever content is passed.  No other row changes.
C20_UpsertTask ==
    [][store_call'.op = "store_task" =>
          LET c == store_call'
              rows == TaskRows(task_history, c.thread_id, c.task_id)
          IN IF rows = {}
             THEN task_history' = Append(task_history,
                     [thread_id |-> c.thread_id, task_id |-> c.task_id,
                      content |-> c.value, status |-> c.status,
                      created_at |-> now, completed_at |-> NULL,
                      metadata |-> c.metadata])
             ELSE /\ Len(task_history') = Len(task_history)
                  /\ \A i \in 1..Len(task_history) :
                        IF i \in rows
                        THEN task_history'[i] =
                                [task_history[i] EXCEPT
                                    !.status = c.status,
                                    !.metadata = c.metadata]
                        ELSE task_history'[i] = task_history[i]]_vars

\* C20 witness: a task stored and completed earlier was stored again with
\* empty content: it keeps its content, created_at and completed_at.
C20_Witness ==
    /\ store_call.op = "store_task"
    /\ store_call.value = ""
    /\ store_call.status = "cancelled"
    /\ LET row == get_task(task_history, store_call.task_id,
                           store_call.thread_id)
       IN /\ row.content = "do"
          /\ row.status = "cancelled"
          /\ row.completed_at # NULL
          /\ row.created_at < row.completed_at
          /\ row.completed_at < now

\* A mark_task_complete call of an existing task that follows a
\* mark_task_complete call of the same task.
SecondCompletion(c, hist) ==
    /\ c.op = "mark_task_complete"
    /\ c.prev = CallOf(c)
    /\ TaskRows(hist, c.thread_id, c.task_id) # {}

\* C21: a second mark_task_complete of the same existing task leaves the
\* task completed, with completed_at the time of the second call and not
\* earlier than the first call's, in one row; neither call changes the
\* number of rows of task_history.
C21_IdempotentCompletion ==
    [][store_call'.n = store_call.n + 1 =>
       /\ store_call'.op = "mark_task_complete" =>
            Len(task_history') = Len(task_history)
       /\ SecondCompletion(store_call', task_history) =>
            LET c == store_call'
                rows == TaskRows(task_history', c.thread_id, c.task_id)
            IN /\ Cardinality(rows) = 1
               /\ \A i \in rows :
                     /\ task_history'[i].status = "completed"
                     /\ task_history'[i].completed_at = now
                     /\ task_history[i].status = "completed"
                     /\ task_history[i].completed_at # NULL
                     /\ task_history[i].completed_at
                           <= task_history'[i].completed_at]_vars

\* C21 witness: the task was completed at one time and then again at a
\* later time.
C21_Witness ==
    /\ SecondCompletion(store_call, task_history)
    /\ store_call.n = 3
    /\ now = MaxClock
    /\ LET row == get_task(task_history, store_call.task_id,
                           store_call.thread_id)
       IN /\ row.status = "completed"
          /\ row.created_at < now
          /\ row.completed_at = now

Effects(w) ==
    <<w.model, w.research_only, w.current_phase, w.current_task_id,
      w.task_queue, w.completed_tasks, w.is_processing, w.task_history,
      w.task_logs, w.phase_results, w.now, w.pipelines, w.uuid_seq,
      w.started, w.nsteps>>

\* The state with the transport of ClientId open.
OpenWorld == [World EXCEPT !.websocket.open = TRUE]

\* The step just taken did, apart from the transport and the registry, what
\* it does when every send succeeds.
Continues ==
    \/ /\ handled' # NoMessage
       /\ Effects(World)' = Effects(process_message(OpenWorld, handled'))
    \/ \E f \in pipelines :
          \/ Effects(World)' = Effects(ResumeReturned(OpenWorld, f))
          \/ Effects(World)' = Effects(ResumeRaised(OpenWorld, f))

\* C23: a step in which a send_json raises removes ClientId from both
\* registry maps, sends nothing, counts one failed send and otherwise does
\* what it does when its sends succeed; once ClientId is not registered no
\* send is attempted.
C23_SendFailureDisconnects ==
    [][/\ websocket'.errors # websocket.errors =>
            /\ ~websocket.open
            /\ ClientId \in active_connections
            /\ websocket'.errors = websocket.errors + 1
            /\ ClientId \notin active_connections'
            /\ ClientId \notin connection_states'
            /\ sent' = sent
            /\ Continues
       /\ ClientId \notin active_connections =>
            /\ sent' = sent
            /\ websocket'.errors = websocket.errors]_vars

\* C23 witness: the send of research_complete raised, the pipeline went on
\* to the planning phase and later completed the task, with the close
\* event still unhandled.
C23_Witness ==
    /\ websocket.errors = 1
    /\ websocket.receiving
    /\ ClientId \notin active_connections
    /\ \E i \in 1..Len(sent) : sent[i].type = "phase_started"
    /\ \A i \in 1..Len(sent) : sent[i].type # "research_complete"
    /\ \E i \in 1..Len(task_history) : task_history[i].status = "completed"
    /\ \E i \in 1..Len(task_logs) :
          /\ task_logs[i].message_type = "phase_change"
          /\ task_logs[i].message.phase = "planning"

\* C24: ConnectionState.mark_task_complete(task_id) with task_id the active
\* task unsets current_task_id, clears is_processing and appends task_id to
\* completed_tasks; with any other task_id it changes none of them; it
\* never changes task_queue.
C24_MarkTaskComplete ==
    [][last_call'.op = "mark_task_complete" =>
          LET id == last_call'.task.task_id
          IN /\ task_queue' = task_queue
             /\ IF id = current_task_id
                THEN /\ current_task_id' = None
                     /\ ~is_processing'
                     /\ completed_tasks' = Append(completed_tasks, id)
                ELSE UNCHANGED <<current_task_id, is_processing,
                                 completed_tasks>>]_vars

\* C24 witness: mark_task_complete of a task that is queued but not the
\* active one left the active task running and the queue as it was.
C24_Witness ==
    /\ last_call.op = "mark_task_complete"
    /\ is_processing
    /\ current_task_id # last_call.task.task_id
    /\ QueueIndex(task_queue, last_call.task.task_id) # 0
    /\ last_call.before = task_queue
    /\ completed_tasks = <<>>

\* q without its i-th entry, the others in their order.
Without(q, i) ==
    [j \in 1..(Len(q) - 1) |-> IF j < i THEN q[j] ELSE q[j + 1]]

\* C25: ConnectionState.cancel_task(task_id) returns true and unsets
\* current_task_id and is_processing when task_id is the active task;
\* otherwise returns true and removes one queue entry of that task_id, the
\* others keeping their order, when one is queued; otherwise returns false
\* and changes nothing.  It never appends to completed_tasks.
C25_CancelTask ==
    [][last_call'.op = "cancel_task" =>
          LET id == last_call'.task.task_id
          IN /\ completed_tasks' = completed_tasks
             /\ IF id = current_task_id
                THEN /\ last_call'.flag
                     /\ current_task_id' = None
                     /\ ~is_processing'
                ELSE IF \E i \in 1..Len(task_queue) :
                            task_queue[i].task_id = id
                THEN /\ last_call'.flag
                     /\ \E i \in 1..Len(task_queue) :
                           /\ task_queue[i].task_id = id
                           /\ task_queue' = Without(task_queue, i)
                     /\ UNCHANGED <<current_task_id, is_processing>>
                ELSE /\ ~last_call'.flag
                     /\ UNCHANGED <<task_queue, current_task_id,
                                     is_processing>>]_vars

\* C25 witness: with a task active and three queued, the middle one was
\* cancelled: the other two are left in their order and the active task
\* still runs.
C25_Witness ==
    /\ last_call.op = "cancel_task"
    /\ last_call.flag
    /\ Len(last_call.before) = 3
    /\ last_call.before[2].task_id = last_call.task.task_id
    /\ last_call.before[1].task_id # last_call.task.task_id
    /\ task_queue = <<last_call.before[1], last_call.before[3]>>
    /\ is_processing
    /\ completed_tasks = <<>>

\* The last frame sent.
LastSent(frames) == frames[Len(frames)]

\* The step just taken handled get_task_status{task_id} for a registered
\* client.
StatusStep ==
    /\ handled'.type = "get_task_status"
    /\ handled'.task_id # None
    /\ ClientId \in active_connections

\* The reply of that step follows the order active, queued, stored, absent,
\* and the step changed nothing else.
StatusAnswer ==
    LET id == handled'.task_id
        reply == LastSent(sent')
        row == get_task(task_history, id, ClientId)
    IN /\ Len(sent') = Len(sent) + 1
       /\ UNCHANGED SessionAndStore
       /\ IF id = current_task_id
          THEN /\ reply.type = "task_status"
               /\ reply.status = "in_progress"
               /\ reply.phase = current_phase
          ELSE IF id \in QueuedIds
          THEN /\ reply.type = "task_status"
               /\ reply.status = "queued"
               /\ reply.position = QueueIndex(task_queue, id)
          ELSE IF row # NoRow
          THEN /\ reply.type = "task_status"
               /\ reply.status = row.status
          ELSE reply.type = "error"

\* C27: get_task_status{task_id} replies in_progress with the current phase
\* when task_id is the active task; else queued with the 1-based position
\* when it is in the queue; else the status of the stored row; else, the
\* task being absent, an error.  It sends that one frame and changes
\* neither the ConnectionState nor the store.
C27_StatusPrecedence == [][StatusStep => StatusAnswer]_vars

\* The same with the ids of the active and the queued tasks pairwise
\* distinct.
StatusPrecedenceDistinct == [][StatusStep /\ DistinctIds => StatusAnswer]_vars

\* The step just taken queued a task: its handler ended with task_queued.
Queued(frames, m) ==
    /\ m.type = "task"
    /\ LastSent(frames).type = "task_queued"

\* C26: the position in task_queued and in the queue log of a newly queued
\* task is its 1-based index in task_queue, the number of tasks waiting
\* with itself; a get_task_status of that task handled next reports the
\* same position; the queued tasks of all_task_status carry the positions
\* 1..n in queue order.
C26_QueuePosition ==
    [][/\ (sent' # sent /\ Queued(sent', handled')) =>
            LET frame == LastSent(sent')
                log == task_logs'[Len(task_logs')]
            IN /\ frame.position = Len(task_queue')
               /\ task_queue'[frame.position].task_id = frame.task_id
               /\ log.message_type = "queue"
               /\ log.task_id = frame.task_id
               /\ log.message.position = frame.position
       /\ (/\ Queued(sent, handled)
           /\ handled'.type = "get_task_status"
           /\ handled'.task_id = LastSent(sent).task_id) =>
            /\ LastSent(sent').type = "task_status"
            /\ LastSent(sent').position = LastSent(sent).position
       /\ (handled'.type = "get_task_status" /\ handled'.task_id = None) =>
            /\ LastSent(sent').type = "all_task_status"
            /\ LastSent(sent').queued_tasks =
                  [i \in 1..Len(task_queue) |->
                      [task_id |-> task_queue[i].task_id, position |-> i]]
      ]_vars

\* The first two parts of C26 with the ids of the active and the queued
\* tasks pairwise distinct after the task was queued.
QueuePositionDistinct ==
    [][/\ (sent' # sent /\ Queued(sent', handled')) =>
            LastSent(sent').position = Len(task_queue')
       /\ (/\ Queued(sent, handled)
           /\ DistinctIds
           /\ handled'.type = "get_task_status"
           /\ handled'.task_id = LastSent(sent).task_id) =>
            /\ LastSent(sent').type = "task_status"
            /\ LastSent(sent').position = LastSent(sent).position]_vars

\* The indices of the log entries that a listing call c selects.
Selected(c, logs) ==
    {i \in 1..Len(logs) :
        /\ logs[i].thread_id = c.thread_id
        /\ logs[i].task_id = c.task_id
        /\ c.message_type # None => logs[i].message_type = c.message_type}

\* The listing returned to call c is the selected entries, newest first,
\* without the first c.offset of them, and has at most c.limit entries
\* (none for a negative c.limit), exactly that many when that many are left.
Listing(c, logs) ==
    LET sel == Selected(c, logs)
        left == IF Cardinality(sel) > c.offset
                THEN Cardinality(sel) - c.offset ELSE 0
        most == IF c.limit < 0 THEN 0 ELSE c.limit
    IN /\ Len(c.result) <= most
       /\ Len(c.result) = IF left < most THEN left ELSE most
       /\ \A k \in 1..Len(c.result) :
             \E i \in sel :
                /\ Cardinality({j \in sel : j > i}) = c.offset + k - 1
                /\ c.result[k].message = logs[i].message
                /\ c.result[k].message_type = logs[i].message_type
                /\ c.result[k].timestamp = logs[i].timestamp

\* C28: log_task_message appends one entry and leaves the existing entries
\* as they are; get_task_logs returns the entries of the thread and task,
\* of the message_type when one is given, newest first, without the first
\* offset of them and at most limit of them, and changes nothing.
C28_LogListing ==
    [][/\ store_call'.op = "log_task_message" =>
            /\ Len(task_logs') = Len(task_logs) + 1
            /\ SubSeq(task_logs', 1, Len(task_logs)) = task_logs
            /\ task_logs'[Len(task_logs')].thread_id = store_call'.thread_id
            /\ task_logs'[Len(task_logs')].message_type
                  = store_call'.message_type
       /\ store_call'.op = "get_task_logs" =>
            /\ task_logs' = task_logs
            /\ Listing(store_call', task_logs)]_vars

\* C28 for a limit that is not negative.
LogListingBounded ==
    [][/\ store_call'.op = "log_task_message" =>
            /\ Len(task_logs') = Len(task_logs) + 1
            /\ SubSeq(task_logs', 1, Len(task_logs)) = task_logs
       /\ (store_call'.op = "get_task_logs" /\ store_call'.limit >= 0) =>
            /\ task_logs' = task_logs
            /\ Listing(store_call', task_logs)]_vars

\* The (thread_id, task_id) of the rows of task_history, in row order: the
\* order of first insertion.
InsertionOrder(hist) ==
    [i \in 1..Len(hist) |-> <<hist[i].thread_id, hist[i].task_id>>]

\* The indices of the rows that a get_task_history call c selects.
SelectedTasks(c, hist) ==
    {i \in 1..Len(hist) :
        /\ hist[i].thread_id = c.thread_id
        /\ c.status # None => hist[i].status = c.status}

\* The listing returned to call c is the selected rows, last inserted
\* first, from the (c.offset + 1)-th on; with a limit that is not negative
\* there are as many as the limit allows.
TaskListing(c, hist) ==
    LET sel == SelectedTasks(c, hist)
        left == IF Cardinality(sel) > c.offset
                THEN Cardinality(sel) - c.offset ELSE 0
    IN /\ Len(c.result) <= left
       /\ c.limit >= 0 =>
             Len(c.result) = IF left < c.limit THEN left ELSE c.limit
       /\ \A k \in 1..Len(c.result) :
             \E i \in sel :
                /\ Cardinality({j \in sel : j > i}) = c.offset + k - 1
                /\ c.result[k].task_id = hist[i].task_id
                /\ c.result[k].status = hist[i].status
                /\ c.result[k].content = hist[i].content
                /\ c.result[k].created_at = hist[i].created_at
                /\ c.result[k].completed_at = hist[i].completed_at

\* C29: get_task_history returns the rows of the thread given, of the
\* status given when there is one, last inserted first; a store_task of an
\* existing task or a mark_task_complete leaves the order of first
\* insertion as it is, and a new task comes last in it.
C29_TaskListing ==
    [][/\ store_call'.op = "get_task_history" =>
            /\ task_history' = task_history
            /\ TaskListing(store_call', task_history)
       /\ store_call'.op = "mark_task_complete" =>
            InsertionOrder(task_history') = InsertionOrder(task_history)
       /\ store_call'.op = "store_task" =>
            LET key == <<store_call'.thread_id, store_call'.task_id>>
            IN InsertionOrder(task_history') =
                  IF \E i \in 1..Len(task_history) :
                        InsertionOrder(task_history)[i] = key
                  THEN InsertionOrder(task_history)
                  ELSE Append(InsertionOrder(task_history), key)]_vars

\* C29 witness: task A of ClientId was inserted, then task B, then A was
\* completed; the listing of ClientId asked for next is B, then A completed.
C29_Witness ==
    /\ store_call.op = "get_task_history"
    /\ store_call.prev.op = "mark_task_complete"
    /\ store_call.prev.task_id = "A"
    /\ store_call.thread_id = ClientId
    /\ store_call.status = None
    /\ Len(store_call.result) = 2
    /\ store_call.result[1].task_id = "B"
    /\ store_call.result[1].status # "completed"
    /\ store_call.result[2].task_id = "A"
    /\ store_call.result[2].status = "completed"
    /\ \E i \in 1..Len(task_history) : task_history[i].thread_id = PeerId

\* The indices of the rows of a table that belong to thread t.
ThreadRows(rows, t) == {i \in 1..Len(rows) : rows[i].thread_id = t}

\* Table `after` is table `before` without the rows of thread t: it has no
\* row of t, and the rows of the other threads are those of before, in
\* their order.
Cleared(before, after, t) ==
    /\ ThreadRows(after, t) = {}
    /\ Len(after) = Len(before) - Cardinality(ThreadRows(before, t))
    /\ \A i \in 1..Len(before) :
          before[i].thread_id # t =>
             after[i - Cardinality({j \in ThreadRows(before, t) : j < i})]
                = before[i]

\* C30: clear_thread(t) leaves no row of thread t in memory, phase_results,
\* task_history and task_logs and every row of another thread as it was;
\* clear_all leaves the four tables empty.
C30_BulkClear ==
    [][/\ store_call'.op = "clear_thread" =>
            /\ Cleared(memory, memory', store_call'.thread_id)
            /\ Cleared(phase_results, phase_results', store_call'.thread_id)
            /\ Cleared(task_history, task_history', store_call'.thread_id)
            /\ Cleared(task_logs, task_logs', store_call'.thread_id)
       /\ store_call'.op = "clear_all" =>
            /\ memory' = <<>>
            /\ phase_results' = <<>>
            /\ task_history' = <<>>
            /\ task_logs' = <<>>]_vars

\* C30 witness: clear_thread deleted three rows of ClientId and rows of
\* other threads are still there.
C30_Witness ==
    /\ store_call.op = "clear_thread"
    /\ store_call.thread_id = ClientId
    /\ store_call.result = 3
    /\ Len(memory) + Len(phase_results) + Len(task_history)
          + Len(task_logs) = 1

\* C31: config_update applies only the keys model and research_only to the
\* ConnectionState: a config with another key leaves every ConnectionState
\* field as it was; the handler touches neither the queue nor the store
\* nor a pipeline, and the config_updated reply carries model and
\* research_only as they are after the update.
C31_ConfigUpdate ==
    [][handled'.type = "config_update" =>
          LET config == handled'.config IN
          /\ model' = IF "model" \in config.keys THEN config.model ELSE model
          /\ research_only' = IF "research_only" \in config.keys
                              THEN config.research_only ELSE research_only
          /\ UNCHANGED <<current_phase, current_task_id, task_queue,
                         completed_tasks, is_processing>>
          /\ UNCHANGED <<task_history, task_logs, phase_results, memory,
                         pipelines, started>>
          /\ sent' = Append(sent,
                        [Event("config_updated", None) EXCEPT
                            !.model = model',
                            !.research_only = research_only'])
      ]_vars

\* A config_update naming only is_processing was handled while a task was
\* active and another queued; the reply is the last frame sent.
C31_Witness ==
    /\ handled.type = "config_update"
    /\ handled.config.keys = {"is_processing"}
    /\ is_processing
    /\ task_queue # <<>>
    /\ LastSent(sent).type = "config_updated"
    /\ LastSent(sent).model = model

\* C32: process_next_task is a no-op when is_processing is already true or
\* the queue is empty: task_queue, current_task_id, current_phase,
\* is_processing and the store are unchanged, no event is sent, and no
\* collaborator is invoked.
C32_NoOp ==
    [][(/\ last_call'.n = last_call.n + 1
        /\ last_call'.op = "process_next_task"
        /\ (is_processing \/ task_queue = <<>>)) =>
          /\ UNCHANGED <<task_queue, current_task_id, current_phase,
                         is_processing, completed_tasks>>
          /\ UNCHANGED <<task_history, task_logs, phase_results, memory>>
          /\ UNCHANGED <<sent, pipelines, started>>
      ]_vars

\* process_next_task was called while a task was active, its collaborator
\* call in flight, and another task waited in the queue.
C32_Witness ==
    /\ last_call.op = "process_next_task"
    /\ last_call.flag
    /\ last_call.before # <<>>
    /\ task_queue = last_call.before
    /\ is_processing
    /\ pipelines # {}

\* C33: at most one pipeline runs per session: at any time at most one
\* phase collaborator call is in flight, whatever the interleaving of task,
\* cancel and mark_complete handling with pipeline steps.
C33_OnePipeline == Cardinality(pipelines) <= 1

\* The order part of C34 on its own: current_phase changes only to research
\* (a task starts), from research to planning, or from planning to
\* implementation.
PhaseOrderKept ==
    [][current_phase' # current_phase =>
          \/ current_phase' = "research"
          \/ current_phase = "research" /\ current_phase' = "planning"
          \/ current_phase = "planning" /\ current_phase' = "implementation"
      ]_vars

\* C34: current_phase follows idle -> research -> planning ->
\* implementation -> idle (research -> idle in research_only mode):
\* whenever is_processing is false, current_phase is the idle value.
C34_ReturnsToIdle == ~is_processing => current_phase = None

\* The step made the store write (op, task_id, what, phase) before the j-th
\* entry of its trace.
WroteBefore(tr, j, op, task_id, what, phase) ==
    \E i \in 1..(j - 1) :
        tr[i] = [op |-> op, task_id |-> task_id, what |-> what,
                 phase |-> phase]

\* The phase whose result a frame type carries.
PhaseOfEvent(type) ==
    CASE type = "research_complete" -> "research"
      [] type = "planning_complete" -> "planning"
      [] type = "implementation_complete" -> "implementation"

\* The log entries (message_type, phase named) of one run through the
\* given phases: create, phase_change and phase_complete per phase,
\* complete.
RECURSIVE PhaseLog(_)
PhaseLog(phases) ==
    IF phases = <<>> THEN <<>>
    ELSE <<[message_type |-> "phase_change", phase |-> Head(phases)],
           [message_type |-> "phase_complete", phase |-> Head(phases)]>>
         \o PhaseLog(Tail(phases))

RunLog(phases) ==
    <<[message_type |-> "create", phase |-> None]>> \o PhaseLog(phases)
        \o <<[message_type |-> "complete", phase |-> None]>>

\* The log entries of task t of the client, in insertion order, from its
\* latest create entry on.
LogOfRun(logs, t) ==
    LET own == SelectSeq(logs, LAMBDA r :
                   r.thread_id = ClientId /\ r.task_id = t)
        creates == {i \in 1..Len(own) : own[i].message_type = "create"}
        from == IF creates = {} THEN 1
                ELSE CHOOSE i \in creates : \A k \in creates : k <= i
    IN [i \in 1..(Len(own) + 1 - from) |->
           [message_type |-> own[from + i - 1].message_type,
            phase |-> own[from + i - 1].message.phase]]

\* C35: persist-then-notify for one task.  In every step, a task_received
\* frame is sent after the pending row was stored and the create entry
\* logged; phase_started{research} after status in_progress was stored;
\* every phase_started after the phase_change entry of its phase; every
\* <phase>_complete after the phase_complete entry of its phase; and
\* task_complete after the complete entry, the log of the task then being
\* create, phase_change and phase_complete per phase run, complete.
C35_PersistThenNotify ==
    [][\A j \in 1..Len(trace') :
          LET e == trace'[j]
              t == e.task_id
          IN e.op = "send_update" =>
             /\ e.what = "task_received" =>
                  /\ WroteBefore(trace', j, "store_task", t, "pending", None)
                  /\ WroteBefore(trace', j, "log_task_message", t, "create",
                                 None)
                  /\ get_task(task_history', t, ClientId) # NoRow
             /\ e.what = "phase_started" =>
                  /\ WroteBefore(trace', j, "log_task_message", t,
                                 "phase_change", e.phase)
                  /\ e.phase = "research" =>
                        WroteBefore(trace', j, "store_task", t,
                                    "in_progress", None)
             /\ e.what \in {"research_complete", "planning_complete",
                            "implementation_complete"} =>
                  WroteBefore(trace', j, "log_task_message", t,
                              "phase_complete", PhaseOfEvent(e.what))
             /\ e.what = "task_complete" =>
                  /\ WroteBefore(trace', j, "log_task_message", t,
                                 "complete", None)
                  /\ LogOfRun(task_logs', t) =
                        RunLog(IF research_only THEN <<"research">>
                               ELSE Phases)
      ]_vars

\* The step just taken sent task_complete for a task that ran all three
\* phases.
C35_Witness ==
    /\ ~research_only
    /\ \E j \in 1..Len(trace) :
          /\ trace[j].op = "send_update"
          /\ trace[j].what = "task_complete"
          /\ LogOfRun(task_logs, trace[j].task_id) = RunLog(Phases)

\* C36: under the receive loop of the websocket endpoint, whenever a
\* message is taken for handling the session has is_processing false,
\* current_task_id unset and an empty task_queue; so no handler takes the
\* task_queued branch or the branch that cancels the active task.
C36_IdleAtMessage ==
    [][handled' # NoMessage =>
          /\ ~is_processing
          /\ current_task_id = None
          /\ task_queue = <<>>
          /\ \A j \in 1..Len(trace') :
                /\ trace'[j].what \notin {"task_queued", "queue"}
                /\ trace'[j].what = "task_cancelled" =>
                      handled'.task_id # current_task_id
      ]_vars

\* A cancel naming the task that ran before it was taken from the socket:
\* the task had ended, and the cancel was answered with an error.
C36_Witness ==
    /\ handled.type = "cancel"
    /\ completed_tasks # <<>>
    /\ handled.task_id = completed_tasks[1]
    /\ LastSent(sent).type = "error"

\* The registry maps the client_id of connection h to h in both maps, and
\* every frame received on h was sent by h's own endpoint, handlers and
\* pipelines.
Tracked(h) ==
    /\ manager.active_connections[connections[h].client_id] = h
    /\ manager.connection_states[connections[h].client_id] = h
    /\ \A i \in 1..Len(connections[h].frames) :
          connections[h].frames[i].origin = h

\* C37 for connections with pairwise different client_ids.
RegistryTracksDistinct ==
    (\A h, k \in DOMAIN connections :
        h # k => connections[h].client_id # connections[k].client_id)
    => \A h \in DOMAIN connections :
          (connections[h].open /\ connections[h].errors = 0) => Tracked(h)

\* C37: for every connection that is open and has had no send failure, the
\* registry maps its client_id to that connection's own websocket and
\* ConnectionState, for any interleaving of connects and disconnects, two
\* connections with the same client_id included; and the events of a task
\* go only to the connection that submitted it.
C37_RegistryTracks ==
    \A h \in DOMAIN connections :
        (connections[h].open /\ connections[h].errors = 0) => Tracked(h)

\* C38: after any interleaving of store_task and mark_task_complete calls
\* made concurrently by threads of one process, task_history holds at most
\* one row per (thread_id, task_id); the check and the insert of store_task
\* are atomic with respect to every other store operation, so the call has
\* the effect of store_task run on its own; and mark_task_complete on a
\* (thread_id, task_id) without a row creates none.
C38_OneRowPerTask ==
    [][/\ \A id \in TaskIds :
             Cardinality(TaskRows(task_history', ClientId, id)) <= 1
       /\ \A t \in Workers :
             (workers[t].pc = "write" /\ workers'[t].pc = "idle") =>
                LET c == workers[t]
                    rows == TaskRows(task_history, ClientId, c.task_id)
                IN /\ c.op = "store_task" =>
                        /\ c.found <=> rows # {}
                        /\ task_history' =
                              store_task(World, c.task_id, "do", ClientId,
                                         c.status, NoMeta).task_history
                   /\ (c.op = "mark_task_complete" /\ rows = {}) =>
                        task_history' = task_history
      ]_vars

\* Two threads have called store_task for the same new task: one holds the
\* lock and has found no row, the other waits for the lock.
C38_Witness ==
    /\ workers["T1"].op = "store_task"
    /\ workers["T1"].pc = "write"
    /\ ~workers["T1"].found
    /\ lock = "T1"
    /\ workers["T2"].op = "store_task"
    /\ workers["T2"].pc = "acquire"
    /\ workers["T2"].task_id = workers["T1"].task_id

\* C39: whenever is_processing is true, current_phase is the phase the
\* pipeline of current_task_id is in; and the phase written into the error
\* metadata of a failed task, while its row has status error, is the phase
\* of that task's own pipeline when its collaborator raised.
C39_PhaseOfActiveTask ==
    /\ is_processing =>
          \E f \in pipelines :
              f.task.task_id = current_task_id /\ f.phase = current_phase
    /\ (/\ raised # NoFrame
        /\ Status(task_history, raised.task.task_id) = "error") =>
          get_task(task_history, raised.task.task_id, ClientId).metadata.phase
              = raised.phase

====
